---------------------------- MODULE Spec2Model ----------------------------
(***************************************************************************)
(* A model of the conformance-test harness of the Erbsland Configuration   *)
(* Language test suite: the outcome codec (utilities/lib/outcome_parser.py),*)
(* the comparator (utilities/lib/outcome_data.py, utilities/lib/value.py), *)
(* the adapter client (utilities/lib/adapter_runner.py) and the run of     *)
(* conformance_test.py.                                                    *)
(*                                                                         *)
(* Text is modelled as Python sees it: a str is a sequence of one-character*)
(* strings, a document is the list text.splitlines() returns.  A call that *)
(* may raise returns a record [raised, exc, val]: exc is the Python class  *)
(* of the exception ("Error" is utilities.lib.error.Error and its          *)
(* subclasses, the only class the harness catches).                        *)
(***************************************************************************)
EXTENDS Integers, Sequences, FiniteSets, TLC

VARIABLES
    \* --- the conformance run (conformance_test.py) ---
    pc,             \* where WorkingSet.run is
    tier,           \* WorkingSet.tier
    corpus,         \* the files below tests/V1_0, in the order rglob yields them
    adapter,        \* what the adapter executable does, per corpus file
    test_cases,     \* WorkingSet.test_cases
    called,         \* per corpus file: how often subprocess.run started the adapter
    workerOut,      \* per corpus file: what _process_test_case gave back to pool.map
    ws,             \* WorkingSet.result, the three counters, the score, TestCase.result
    report,         \* what output_results wrote
    exitCode,       \* the process's exit status (-1: still running)
    \* --- one comparison (OutcomeData.compare_with_expected) ---
    cmpActual, cmpExpected, cmpResult,
    \* --- one decoding (parse_pass / parse_fail) ---
    docText, decoded

runVars == <<pc, tier, corpus, adapter, test_cases, called, workerOut, ws, report, exitCode>>
cmpVars == <<cmpActual, cmpExpected, cmpResult>>
decVars == <<docText, decoded>>
vars == <<runVars, cmpVars, decVars>>

-----------------------------------------------------------------------------
(* Python values and exceptions *)

Return(v) == [raised |-> FALSE, exc |-> "", val |-> v]
Raise(e)  == [raised |-> TRUE,  exc |-> e,  val |-> <<>>]

Range(s) == {s[i] : i \in DOMAIN s}

-----------------------------------------------------------------------------
(* str: characters, lower(), strip(), split(), ordering *)

UpperLetters == <<"A","B","C","D","E","F","G","H","I","J","K","L","M",
                  "N","O","P","Q","R","S","T","U","V","W","X","Y","Z">>
LowerLetters == <<"a","b","c","d","e","f","g","h","i","j","k","l","m",
                  "n","o","p","q","r","s","t","u","v","w","x","y","z">>
DigitChars == <<"0","1","2","3","4","5","6","7","8","9">>

\* The characters of the model's texts in code-point order (str comparison).
AsciiOrder == <<"\t", " ", "#", "(", ")", "+", "-", ".">> \o DigitChars \o <<"=", "@">>
              \o UpperLetters \o <<"_">> \o LowerLetters \o <<"|">>

Ord(c) == CHOOSE i \in DOMAIN AsciiOrder : AsciiOrder[i] = c

\* \s of the regular expressions, and the characters str.strip() removes
IsSpace(c) == c \in {" ", "\t"}

\* \w of the regular expressions
IsWord(c) == c \in Range(UpperLetters) \cup Range(LowerLetters) \cup Range(DigitChars) \cup {"_"}

LowerChar(c) ==
    IF c \in Range(UpperLetters)
    THEN LowerLetters[CHOOSE i \in DOMAIN UpperLetters : UpperLetters[i] = c]
    ELSE c

\* str.lower()
ToLower(s) == [i \in 1..Len(s) |-> LowerChar(s[i])]

RECURSIVE LStrip(_)
LStrip(s) == IF s # <<>> /\ IsSpace(Head(s)) THEN LStrip(Tail(s)) ELSE s

RECURSIVE RStrip(_)
RStrip(s) == IF s # <<>> /\ IsSpace(s[Len(s)]) THEN RStrip(SubSeq(s, 1, Len(s) - 1)) ELSE s

\* str.strip()
Strip(s) == RStrip(LStrip(s))

\* str.__lt__: lexicographic by code point
RECURSIVE StrLess(_, _)
StrLess(s, t) ==
    IF t = <<>> THEN FALSE
    ELSE IF s = <<>> THEN TRUE
    ELSE IF Head(s) # Head(t) THEN Ord(Head(s)) < Ord(Head(t))
    ELSE StrLess(Tail(s), Tail(t))

\* sorted(S) for a set of str
RECURSIVE Sorted(_)
Sorted(S) ==
    IF S = {} THEN <<>>
    ELSE LET m == CHOOSE x \in S : \A y \in S \ {x} : StrLess(x, y)
         IN  <<m>> \o Sorted(S \ {m})

\* the index of the first c in s, 0 when there is none
FirstIndex(s, c) ==
    IF \E i \in DOMAIN s : s[i] = c
    THEN CHOOSE i \in DOMAIN s : s[i] = c /\ \A j \in 1..(i - 1) : s[j] # c
    ELSE 0

\* str.split(sep) for a one-character separator
RECURSIVE Split(_, _)
Split(s, sep) ==
    LET p == FirstIndex(s, sep)
    IN  IF p = 0 THEN <<s>>
        ELSE <<SubSeq(s, 1, p - 1)>> \o Split(SubSeq(s, p + 1, Len(s)), sep)

\* "sub in s" for str
Contains(sub, s) ==
    \E i \in 0..(Len(s) - Len(sub)) : SubSeq(s, i + 1, i + Len(sub)) = sub

\* the end of the longest run of \w characters of s that starts at index q
\* (q - 1 when s[q] is no \w character)
WordRunEnd(s, q) ==
    CHOOSE r \in (q - 1)..Len(s) :
        /\ \A i \in q..r : IsWord(s[i])
        /\ r = Len(s) \/ ~IsWord(s[r + 1])

\* the first index >= q of s that holds no \s character (Len(s) + 1 when none)
SkipSpace(s, q) ==
    CHOOSE r \in q..(Len(s) + 1) :
        /\ \A i \in q..(r - 1) : IsSpace(s[i])
        /\ r = Len(s) + 1 \/ ~IsSpace(s[r])

-----------------------------------------------------------------------------
(* utilities/lib/error_class.py *)

IO            == <<"I","O">>
Encoding      == <<"E","n","c","o","d","i","n","g">>
UnexpectedEnd == <<"U","n","e","x","p","e","c","t","e","d","E","n","d">>
Character     == <<"C","h","a","r","a","c","t","e","r">>
Syntax        == <<"S","y","n","t","a","x">>
LimitExceeded == <<"L","i","m","i","t","E","x","c","e","e","d","e","d">>
NameConflict  == <<"N","a","m","e","C","o","n","f","l","i","c","t">>
Indentation   == <<"I","n","d","e","n","t","a","t","i","o","n">>
Unsupported   == <<"U","n","s","u","p","p","o","r","t","e","d">>
Signature     == <<"S","i","g","n","a","t","u","r","e">>
Access        == <<"A","c","c","e","s","s">>
Validation    == <<"V","a","l","i","d","a","t","i","o","n">>
Internal      == <<"I","n","t","e","r","n","a","l">>

\* The members of the StrEnum; a member is its value, a str.
ErrorClass == {IO, Encoding, UnexpectedEnd, Character, Syntax, LimitExceeded, NameConflict,
               Indentation, Unsupported, Signature, Access, Validation, Internal}

\* {str(member).lower(): member}
error_class_str_map ==
    [k \in {ToLower(c) : c \in ErrorClass} |-> CHOOSE c \in ErrorClass : ToLower(c) = k]

\* A dict lookup: a missing key raises KeyError.
parse_error_class(error_class) ==
    LET k == ToLower(error_class)
    IN  IF k \in DOMAIN error_class_str_map
        THEN Return(error_class_str_map[k])
        ELSE Raise("KeyError")

-----------------------------------------------------------------------------
(* utilities/lib/outcome_parser.py: the three regular expressions *)

NoMatch == [ok |-> FALSE, g1 |-> <<>>, g2 |-> <<>>, g3 |-> <<>>]

\* RE_VALUE_LINE = ^([^=]+)\s*=\s*(\w+)\((.*)\)\s*$
\* [^=]+ is greedy and takes the white space before the "=" too: group 1 is
\* everything before the first "=".
MatchValueLine(line) ==
    LET p == FirstIndex(line, "=")
    IN  IF p < 2 THEN NoMatch
        ELSE
        LET q == SkipSpace(line, p + 1)
            r == WordRunEnd(line, q)
        IN  IF r < q \/ r + 1 > Len(line) THEN NoMatch
            ELSE IF line[r + 1] # "(" THEN NoMatch
            ELSE
            LET closers == {t \in (r + 2)..Len(line) : line[t] = ")"}
            IN  IF closers = {} THEN NoMatch
                ELSE
                LET t == CHOOSE x \in closers : \A y \in closers : y <= x
                IN  IF \E i \in (t + 1)..Len(line) : ~IsSpace(line[i]) THEN NoMatch
                    ELSE [ok |-> TRUE,
                          g1 |-> SubSeq(line, 1, p - 1),
                          g2 |-> SubSeq(line, q, r),
                          g3 |-> SubSeq(line, r + 2, t - 1)]

\* RE_FAIL_LINE = ^FAIL\s*=\s*(.*)\s*$ with re.I
MatchFailLine(line) ==
    IF Len(line) < 5 \/ ToLower(SubSeq(line, 1, 4)) # <<"f","a","i","l">> THEN NoMatch
    ELSE
    LET q == SkipSpace(line, 5)
    IN  IF q > Len(line) THEN NoMatch
        ELSE IF line[q] # "=" THEN NoMatch
        ELSE [ok |-> TRUE,
              g1 |-> SubSeq(line, SkipSpace(line, q + 1), Len(line)),
              g2 |-> <<>>, g3 |-> <<>>]

\* RE_FAIL_ERROR = ^(\w+)(?:\((.*)\))?$
MatchFailError(token) ==
    LET r == WordRunEnd(token, 1)
    IN  IF r < 1 THEN NoMatch
        ELSE IF r = Len(token) THEN [ok |-> TRUE, g1 |-> token, g2 |-> <<>>, g3 |-> <<>>]
        ELSE IF token[r + 1] = "(" /\ Len(token) >= r + 2 /\ token[Len(token)] = ")"
        THEN [ok |-> TRUE, g1 |-> SubSeq(token, 1, r),
              g2 |-> SubSeq(token, r + 2, Len(token) - 1), g3 |-> <<>>]
        ELSE NoMatch

-----------------------------------------------------------------------------
(* utilities/lib/value.py, utilities/lib/outcome_data.py: the data *)

\* Value(value_type, value)
Value(value_type, value) == [type |-> value_type, value |-> value]

\* OutcomeData(status): values is a dict, a function from name-paths to Values.
OutcomeData(status) ==
    [status |-> status, error_classes |-> <<>>, error_message |-> <<>>, values |-> <<>>]

\* d[key] = value for a dict d
DictSet(d, key, value) ==
    [k \in (DOMAIN d) \cup {key} |-> IF k = key THEN value ELSE d[k]]

\* Value.to_outcome_text: f"{self.type}({self.value})"
to_outcome_text(self) == self.type \o <<"(">> \o self.value \o <<")">>

\* sep.join(list) for a list of str
RECURSIVE Join(_, _)
Join(list, sep) ==
    IF list = <<>> THEN <<>>
    ELSE IF Len(list) = 1 THEN list[1]
    ELSE list[1] \o sep \o Join(Tail(list), sep)

\* A faulty OutcomeData.write: it joins the error classes with ", ".
WriteClassesWithComma(self) ==
    IF self.status = "PASS"
    THEN LET names == Sorted(DOMAIN self.values)
         IN  [i \in 1..Len(names) |->
                names[i] \o <<" ","="," ">> \o to_outcome_text(self.values[names[i]])]
    ELSE << <<"F","A","I","L"," ","="," ">> \o Join(self.error_classes, <<","," ">>) >>

\* OutcomeData.write: the lines of the file it writes.  A PASS outcome gives
\* one line per name path, in sorted order; a FAIL outcome the one line
\* "FAIL = " with the error classes joined by "|".
write(self) ==
    IF self.status = "PASS"
    THEN LET names == Sorted(DOMAIN self.values)
         IN  [i \in 1..Len(names) |->
                names[i] \o <<" ","="," ">> \o to_outcome_text(self.values[names[i]])]
    ELSE << <<"F","A","I","L"," ","="," ">> \o Join(self.error_classes, <<"|">>) >>

-----------------------------------------------------------------------------
(* utilities/lib/outcome_parser.py: parse_pass, parse_fail *)

\* a line the two decoders skip
IsSkipped(stripped) == stripped = <<>> \/ Head(stripped) = "#"

\* The loop of parse_pass over the lines that are left.  The duplicate test
\* looks up group 1 as matched; the key stored is group 1 stripped.
RECURSIVE parse_pass_lines(_, _)
parse_pass_lines(lines, result) ==
    IF lines = <<>> THEN Return(result)
    ELSE
    LET line == Strip(Head(lines))
    IN  IF IsSkipped(line) THEN parse_pass_lines(Tail(lines), result)
        ELSE
        LET match == MatchValueLine(line)
        IN  IF ~match.ok THEN Raise("Error")
            ELSE IF match.g1 \in DOMAIN result.values THEN Raise("Error")
            ELSE parse_pass_lines(Tail(lines),
                    [result EXCEPT !.values =
                        DictSet(result.values, Strip(match.g1),
                                Value(Strip(match.g2), Strip(match.g3)))])

parse_pass(text) == parse_pass_lines(text, OutcomeData("PASS"))

\* The inner loop of parse_fail over the tokens of one FAIL line.
RECURSIVE parse_fail_tokens(_, _)
parse_fail_tokens(tokens, result) ==
    IF tokens = <<>> THEN Return(result)
    ELSE
    LET error_class == Strip(Head(tokens))
    IN  IF error_class = <<>> THEN parse_fail_tokens(Tail(tokens), result)
        ELSE
        LET match == MatchFailError(error_class)
        IN  IF ~match.ok THEN Raise("Error")
            ELSE
            LET parsed == parse_error_class(match.g1)
            IN  \* only ValueError is turned into Error; the lookup raises KeyError
                IF parsed.raised
                THEN (IF parsed.exc = "ValueError" THEN Raise("Error") ELSE parsed)
                ELSE IF parsed.val \in Range(result.error_classes) THEN Raise("Error")
                ELSE parse_fail_tokens(Tail(tokens),
                        [result EXCEPT
                            !.error_classes = Append(result.error_classes, parsed.val),
                            !.error_message = IF match.g2 # <<>> THEN match.g2
                                              ELSE result.error_message])

\* The loop of parse_fail over the lines that are left.
RECURSIVE parse_fail_lines(_, _)
parse_fail_lines(lines, result) ==
    IF lines = <<>> THEN Return(result)
    ELSE
    LET line == Strip(Head(lines))
    IN  IF IsSkipped(line) THEN parse_fail_lines(Tail(lines), result)
        ELSE IF result.error_classes # <<>> THEN Raise("Error")
        ELSE
        LET match == MatchFailLine(line)
        IN  IF ~match.ok THEN Raise("Error")
            ELSE
            LET r == parse_fail_tokens(Split(match.g1, "|"), result)
            IN  IF r.raised THEN r ELSE parse_fail_lines(Tail(lines), r.val)

parse_fail(text) == parse_fail_lines(text, OutcomeData("FAIL"))

\* A faulty parse_outcome: it looks for "FAIL" in the name before "PASS".
ParseOutcomeFailFirst(name, text) ==
    IF Contains(<<"F","A","I","L">>, name) THEN parse_fail(text)
    ELSE IF Contains(<<"P","A","S","S">>, name) THEN parse_pass(text)
    ELSE Raise("Error")

\* parse_outcome(path): the decoder is chosen by the file's name.
parse_outcome(name, text) ==
    IF Contains(<<"P","A","S","S">>, name) THEN parse_pass(text)
    ELSE IF Contains(<<"F","A","I","L">>, name) THEN parse_fail(text)
    ELSE Raise("Error")

-----------------------------------------------------------------------------
(* float(str), as far as utilities/lib/value.py uses it.                   *)
(* A float is [kind, sign, mant, exp]: NaN, a signed infinity, or the      *)
(* finite number sign * mant * 10^exp.  Literals of at most MaxMantDigits  *)
(* digits are told apart by a double, so ==, < and > on them are exact.    *)

NaN          == [kind |-> "nan", sign |-> 1, mant |-> 0, exp |-> 0]
Inf(sign)    == [kind |-> "inf", sign |-> sign, mant |-> 0, exp |-> 0]
Fin(sign, mant, exp) == [kind |-> "fin", sign |-> sign, mant |-> mant, exp |-> exp]

RECURSIVE Pow10(_)
Pow10(n) == IF n <= 0 THEN 1 ELSE 10 * Pow10(n - 1)

RECURSIVE NumDigits(_)
NumDigits(m) == IF m < 10 THEN 1 ELSE 1 + NumDigits(m \div 10)

\* (TLC's integers are 32 bits wide: every 9-digit number fits them.)
MaxMantDigits == NumDigits(2147483647) - 1

Abs(x) == IF x < 0 THEN -x ELSE x
Max(x, y) == IF x >= y THEN x ELSE y
Min(x, y) == IF x <= y THEN x ELSE y

IsDigit(c) == c \in Range(DigitChars)
DigitVal(c) == (CHOOSE i \in DOMAIN DigitChars : DigitChars[i] = c) - 1

RECURSIVE DigitsToNat(_)
DigitsToNat(s) == IF s = <<>> THEN 0 ELSE 10 * DigitsToNat(SubSeq(s, 1, Len(s) - 1)) + DigitVal(s[Len(s)])

AllDigits(s) == \A i \in DOMAIN s : IsDigit(s[i])

\* the decimal exponent of the leading digit of a finite, non-zero float
MagExp(v) == v.exp + NumDigits(v.mant) - 1

\* The largest double is 1.7976931348623157e308 and the smallest is about
\* 4.9e-324: a literal beyond the first is inf, one below the second is 0.0.
Rounded(sign, mant, exp) ==
    IF mant = 0 THEN Fin(sign, 0, 0)
    ELSE LET e == exp + NumDigits(mant) - 1
             lead == mant * Pow10(MaxMantDigits - NumDigits(mant))
         IN  IF e > 308 \/ (e = 308 /\ lead > 179769313) THEN Inf(sign)
             ELSE IF e < -324 THEN Fin(sign, 0, 0)
             ELSE Fin(sign, mant, exp)

\* a leading "+" or "-" of s, and s without it
HasSign(s) == s # <<>> /\ s[1] \in {"+", "-"}
SignOf(s) == IF HasSign(s) /\ s[1] = "-" THEN -1 ELSE 1
Unsigned(s) == IF HasSign(s) THEN Tail(s) ELSE s

\* digits [. digits] with at least one digit, as [ok, mant, frac]: the digits
\* as a number and how many of them follow the point
ParseMantissa(mpart) ==
    LET pd == FirstIndex(mpart, ".")
        ipart == IF pd = 0 THEN mpart ELSE SubSeq(mpart, 1, pd - 1)
        fpart == IF pd = 0 THEN <<>> ELSE SubSeq(mpart, pd + 1, Len(mpart))
    IN  IF /\ AllDigits(ipart) /\ AllDigits(fpart)
           /\ Len(ipart) + Len(fpart) >= 1
           /\ Len(ipart) + Len(fpart) <= MaxMantDigits
        THEN [ok |-> TRUE, mant |-> DigitsToNat(ipart \o fpart), frac |-> Len(fpart)]
        ELSE [ok |-> FALSE, mant |-> 0, frac |-> 0]

\* [sign] digits after the "e", as [ok, exp]
ParseExponent(epart) ==
    LET digits == Unsigned(epart)
    IN  IF digits # <<>> /\ AllDigits(digits) /\ Len(digits) <= 3
        THEN [ok |-> TRUE, exp |-> SignOf(epart) * DigitsToNat(digits)]
        ELSE [ok |-> FALSE, exp |-> 0]

\* digits [. digits] [e [sign] digits], lower-cased and without its sign
ParseNumber(sign, s) ==
    LET pe == FirstIndex(s, "e")
        m == ParseMantissa(IF pe = 0 THEN s ELSE SubSeq(s, 1, pe - 1))
        x == IF pe = 0 THEN [ok |-> TRUE, exp |-> 0]
             ELSE ParseExponent(SubSeq(s, pe + 1, Len(s)))
    IN  IF m.ok /\ x.ok THEN Return(Rounded(sign, m.mant, x.exp - m.frac))
        ELSE Raise("ValueError")

\* float(text): [sign] number, "inf", "infinity" or "nan" in any letter case,
\* with white space around it; anything else raises ValueError.  (A literal of
\* more than MaxMantDigits digits, or with "_" between digits, is not in the
\* model's texts.)
ParseFloatLower(sign, s) ==
    IF s \in {<<"i","n","f">>, <<"i","n","f","i","n","i","t","y">>} THEN Return(Inf(sign))
    ELSE IF s = <<"n","a","n">> THEN Return(NaN)
    ELSE ParseNumber(sign, s)

ParseFloat(text) ==
    ParseFloatLower(SignOf(Strip(text)), Unsigned(ToLower(Strip(text))))

\* The texts of the Float values of the model
FloatText ==
    [
        nan |-> <<"n","a","n">>,
        NaN |-> <<"N","a","N">>,
        inf |-> <<"i","n","f">>,
        neg_inf |-> <<"-","i","n","f">>,
        Infinity |-> <<"+","I","n","f","i","n","i","t","y">>,
        e400 |-> <<"1","e","4","0","0">>,
        neg_e400 |-> <<"-","1","e","4","0","0">>,
        two_e307 |-> <<"2","e","3","0","7">>,
        neg_two_e307 |-> <<"-","2","e","3","0","7">>,
        e307 |-> <<"1","e","3","0","7">>,
        neg_e307 |-> <<"-","1","e","3","0","7">>,
        one_half |-> <<"1",".","5">>,
        neg_one_half |-> <<"-","1",".","5">>,
        zero |-> <<"0">>,
        e_10 |-> <<"1","e","-","1","0">>,
        e_10_more |-> <<"1",".","1","e","-","1","0">>,
        small |-> <<"3","e","-","4">>,
        small_next |-> <<"3","0","0","0","0","0","1","e","-","1","0">>,
        small_far |-> <<"3","0","0","0","0","0","2","e","-","1","0">>,
        ten |-> <<"1","0">>,
        ten_less |-> <<"9",".","9","9","9","9","9","9","9","9">>,
        ten_far |-> <<"9",".","9","9","9","9","9","9","9","8">>,
        e9 |-> <<"1","e","9">>,
        e9_less |-> <<"9","9","9","9","9","9","9","9","9">> ]
\* nan "nan", NaN "NaN", inf "inf", neg_inf "-inf", Infinity "+Infinity",
\* e400 "1e400", neg_e400 "-1e400", two_e307 "2e307", neg_two_e307 "-2e307",
\* e307 "1e307", neg_e307 "-1e307", one_half "1.5", neg_one_half "-1.5", zero
\* "0", e_10 "1e-10", e_10_more "1.1e-10", small "3e-4", small_next
\* "3000001e-10", small_far "3000002e-10", ten "10", ten_less "9.99999999",
\* ten_far "9.99999998", e9 "1e9", e9_less "999999999"

FloatTexts == {FloatText[n] : n \in DOMAIN FloatText}

\* the finite floats among them
FiniteFloats == {v \in {ParseFloat(text).val : text \in FloatTexts} : v.kind = "fin"}

-----------------------------------------------------------------------------
(* The arithmetic of float: IEEE 754 binary64, round to nearest, ties to   *)
(* even.  A natural number of any size is the sequence of its digits to    *)
(* the base 2^15, lowest first and without leading zero (<<>> is 0); a     *)
(* double is [kind, sign, m, e] and stands for sign * m * 2^e.  The        *)
(* operators on digits avoid deep recursion: a carry is found by looking   *)
(* back to the last digit that makes or stops one.                         *)

LimbBits == 15
LimbBase == 32768

RECURSIVE Pow2(_)
Pow2(n) == IF n <= 0 THEN 1 ELSE 2 * Pow2(n - 1)

RECURSIVE BitLength(_)
BitLength(n) == IF n = 0 THEN 0 ELSE 1 + BitLength(n \div 2)

Limb(x, i) == IF i >= 1 /\ i <= Len(x) THEN x[i] ELSE 0

\* x without leading zeros
BigNorm(x) ==
    SubSeq(x, 1, Cardinality({i \in DOMAIN x : \E j \in i..Len(x) : x[j] # 0}))

\* a number below 2^31
BigOf(n) ==
    BigNorm(<<n % LimbBase, (n \div LimbBase) % LimbBase, n \div (LimbBase * LimbBase)>>)

BigAdd(x, y) ==
    LET sum(i) == Limb(x, i) + Limb(y, i)
        carry(i) == \E j \in 1..(i - 1) :
                        /\ sum(j) >= LimbBase
                        /\ \A k \in (j + 1)..(i - 1) : sum(k) = LimbBase - 1
    IN  BigNorm([i \in 1..(Max(Len(x), Len(y)) + 1) |->
                    (sum(i) + (IF carry(i) THEN 1 ELSE 0)) % LimbBase])

\* x - y for x >= y
BigSub(x, y) ==
    LET borrow(i) == \E j \in 1..(i - 1) :
                        /\ Limb(x, j) < Limb(y, j)
                        /\ \A k \in (j + 1)..(i - 1) : Limb(x, k) = Limb(y, k)
    IN  BigNorm([i \in 1..Len(x) |->
                    (LimbBase + Limb(x, i) - Limb(y, i) - (IF borrow(i) THEN 1 ELSE 0))
                        % LimbBase])

\* x * m for 0 <= m < 2^15
BigMulSmall(x, m) ==
    BigAdd([i \in 1..Len(x) |-> (x[i] * m) % LimbBase],
           <<0>> \o [i \in 1..Len(x) |-> (x[i] * m) \div LimbBase])

\* x * 2^(15 * n)
BigShlLimbs(x, n) == IF x = <<>> THEN <<>> ELSE [i \in 1..n |-> 0] \o x

\* x * 2^k
BigShl(x, k) == BigShlLimbs(BigMulSmall(x, Pow2(k % LimbBits)), k \div LimbBits)

\* floor(x / 2^k)
BigShr(x, k) ==
    LET n == k \div LimbBits
        r == k % LimbBits
    IN  BigNorm([i \in 1..(Len(x) - n) |->
                    (Limb(x, i + n) \div Pow2(r))
                    + (Limb(x, i + n + 1) % Pow2(r)) * Pow2(LimbBits - r)])

\* x times the digits lo..hi of y, in their places
RECURSIVE BigMulRange(_, _, _, _)
BigMulRange(x, y, lo, hi) ==
    IF lo = hi THEN BigShlLimbs(BigMulSmall(x, y[lo]), lo - 1)
    ELSE LET mid == (lo + hi) \div 2
         IN  BigAdd(BigMulRange(x, y, lo, mid), BigMulRange(x, y, mid + 1, hi))

BigMul(x, y) == IF x = <<>> \/ y = <<>> THEN <<>> ELSE BigMulRange(x, y, 1, Len(y))

\* -1, 0, 1 as x is less than, equal to, greater than y
BigCmp(x, y) ==
    IF Len(x) # Len(y) THEN (IF Len(x) < Len(y) THEN -1 ELSE 1)
    ELSE IF x = y THEN 0
    ELSE IF \E i \in DOMAIN x : x[i] > y[i] /\ \A k \in (i + 1)..Len(x) : x[k] = y[k]
    THEN 1 ELSE -1

BigBitLength(x) ==
    IF x = <<>> THEN 0 ELSE LimbBits * (Len(x) - 1) + BitLength(x[Len(x)])

\* bit k of x (bit 0 is the lowest)
BigBit(x, k) == (Limb(x, k \div LimbBits + 1) \div Pow2(k % LimbBits)) % 2

RECURSIVE BigPow10(_)
BigPow10(n) ==
    IF n <= 0 THEN <<1>>
    ELSE LET half == BigPow10(n \div 2)
             square == BigMul(half, half)
         IN  IF n % 2 = 1 THEN BigMulSmall(square, 10) ELSE square

\* the largest t in lo..hi with d * t * 2^(15 * j) <= a
RECURSIVE QuotientDigit(_, _, _, _, _)
QuotientDigit(a, d, j, lo, hi) ==
    IF lo = hi THEN lo
    ELSE LET mid == (lo + hi + 1) \div 2
         IN  IF BigCmp(BigShlLimbs(BigMulSmall(d, mid), j), a) <= 0
             THEN QuotientDigit(a, d, j, mid, hi)
             ELSE QuotientDigit(a, d, j, lo, mid - 1)

\* floor(a / d) and a mod d, for a < d * 2^(15 * (j + 1)): long division
RECURSIVE BigDivMod(_, _, _)
BigDivMod(a, d, j) ==
    IF j < 0 THEN [q |-> <<>>, r |-> a]
    ELSE LET t == QuotientDigit(a, d, j, 0, LimbBase - 1)
             rest == BigDivMod(BigSub(a, BigShlLimbs(BigMulSmall(d, t), j)), d, j - 1)
         IN  [q |-> BigAdd(BigShlLimbs(BigOf(t), j), rest.q), r |-> rest.r]

\* The double sign * q * 2^e rounded at its last bit: half is -1, 0, 1 as
\* what was cut off is less than, equal to, more than half of that bit.
\* Ties go to the even neighbour, and 2^1024 and more is an infinity.
RoundedDouble(sign, q, half, e) ==
    LET m == IF half > 0 \/ (half = 0 /\ BigBit(q, 0) = 1) THEN BigAdd(q, <<1>>) ELSE q
    IN  IF BigBitLength(m) + e > 1024
        THEN [kind |-> "inf", sign |-> sign, m |-> <<>>, e |-> 0]
        ELSE [kind |-> "fin", sign |-> sign, m |-> m, e |-> e]

\* The double nearest to n * 2^e2: n keeps its 53 highest bits, and fewer
\* when the lowest kept bit would be below 2^-1074.
RoundBig(sign, n, e2) ==
    LET drop == Max(Max(BigBitLength(n) - 53, -1074 - e2), 0)
        q == BigShr(n, drop)
        half == IF drop = 0 \/ BigBit(n, drop - 1) = 0 THEN -1
                ELSE IF BigShl(BigShr(n, drop - 1), drop - 1) = n THEN 0
                ELSE 1
    IN  RoundedDouble(sign, q, half, e2 + drop)

\* The double nearest to n / d for 0 < n < 2^53 * d: the quotient of
\* n * 2^s by d has 53 bits, and fewer when s would be above 1074.
RoundRatio(sign, n, d) ==
    LET s0 == 53 - (BigBitLength(n) - BigBitLength(d))
        \* n * 2^s0 / d is between 2^52 and 2^54
        s == Min(IF BigCmp(BigShl(n, s0), BigShl(d, 53)) >= 0 THEN s0 - 1 ELSE s0, 1074)
        qr == BigDivMod(BigShl(n, s), d, 3)
    IN  RoundedDouble(sign, qr.q, BigCmp(BigShl(qr.r, 1), d), -s)

\* the double float() makes of a decimal literal sign * mant * 10^exp
ToDouble(v) ==
    IF v.mant = 0 THEN [kind |-> "fin", sign |-> v.sign, m |-> <<>>, e |-> 0]
    ELSE IF v.exp >= 0 THEN RoundBig(v.sign, BigMul(BigPow10(v.exp), BigOf(v.mant)), 0)
    ELSE RoundRatio(v.sign, BigOf(v.mant), BigPow10(-v.exp))

\* abs(x) compared with abs(y), for finite doubles
DoubleCmpAbs(x, y) ==
    LET e0 == Min(x.e, y.e)
    IN  BigCmp(BigShl(x.m, x.e - e0), BigShl(y.m, y.e - e0))

\* abs(x - y) for finite doubles
DoubleAbsDiff(x, y) ==
    LET e0 == Min(x.e, y.e)
        X == BigShl(x.m, x.e - e0)
        Y == BigShl(y.m, y.e - e0)
        Z == IF x.sign # y.sign THEN BigAdd(X, Y)
             ELSE IF BigCmp(X, Y) >= 0 THEN BigSub(X, Y) ELSE BigSub(Y, X)
    IN  RoundBig(1, Z, e0)

\* abs(x) * abs(y) for finite doubles
DoubleMulAbs(x, y) == RoundBig(1, BigMul(x.m, y.m), x.e + y.e)

-----------------------------------------------------------------------------
(* utilities/lib/value.py *)

\* the decimal exponents of DEFAULT_REL_TOL, DEFAULT_ABS_TOL, LARGE_THRESHOLD
DEFAULT_REL_TOL_EXP == -9
DEFAULT_ABS_TOL_EXP == -10
LARGE_THRESHOLD_EXP == 307

FloatType == <<"F","l","o","a","t">>

\* v > LARGE_THRESHOLD, v < -LARGE_THRESHOLD for a finite v
AboveThreshold(v) ==
    /\ v.kind = "fin" /\ v.mant > 0 /\ v.sign = 1
    /\ \/ MagExp(v) > LARGE_THRESHOLD_EXP
       \/ MagExp(v) = LARGE_THRESHOLD_EXP /\ v.mant > Pow10(NumDigits(v.mant) - 1)
BelowNegThreshold(v) ==
    /\ v.kind = "fin" /\ v.mant > 0 /\ v.sign = -1
    /\ \/ MagExp(v) > LARGE_THRESHOLD_EXP
       \/ MagExp(v) = LARGE_THRESHOLD_EXP /\ v.mant > Pow10(NumDigits(v.mant) - 1)

\* DEFAULT_REL_TOL = 1e-9 and DEFAULT_ABS_TOL = 1e-10 as the doubles they are
DEFAULT_REL_TOL == ToDouble(Fin(1, 1, DEFAULT_REL_TOL_EXP))
DEFAULT_ABS_TOL == ToDouble(Fin(1, 1, DEFAULT_ABS_TOL_EXP))

\* float() of the finite literals of the model, computed once
DoubleOf == [v \in FiniteFloats |-> ToDouble(v)]

\* diff <= max(rel_tol * max_ab, abs_tol) in the arithmetic of float: x and y
\* are the doubles nearest to the literals, and the difference and the
\* product are rounded.
WithinTolerance(x, y) ==
    LET diff == DoubleAbsDiff(x, y)
        max_ab == IF DoubleCmpAbs(x, y) >= 0 THEN x ELSE y
        rel == DoubleMulAbs(DEFAULT_REL_TOL, max_ab)
        tol == IF DoubleCmpAbs(rel, DEFAULT_ABS_TOL) >= 0 THEN rel ELSE DEFAULT_ABS_TOL
    IN  diff.kind = "fin" /\ DoubleCmpAbs(diff, tol) <= 0

\* the tolerance test on the finite floats of the model, computed once
CloseTable == [a \in FiniteFloats, b \in FiniteFloats |-> WithinTolerance(DoubleOf[a], DoubleOf[b])]

\* lines 63-71 of _compare_float for finite a and b
FiniteClose(a, b) == CloseTable[a, b]

\* A faulty _compare_float: it lacks the test "math.isnan(actual_float)" that
\* lets two NaN match, so an expected NaN never matches.
CompareFloatNaNNeverMatches(self, expected_value) ==
    LET pa == ParseFloat(self.value)
        pb == ParseFloat(expected_value.value)
    IN  IF pa.raised \/ pb.raised THEN "value"
        ELSE IF pa.val.kind = "nan" \/ pb.val.kind = "nan" THEN "value"
        ELSE IF pa.val.kind = "inf" \/ pb.val.kind = "inf"
        THEN (IF pa.val = pb.val THEN "" ELSE "value")
        ELSE IF FiniteClose(pa.val, pb.val) THEN "" ELSE "value"

\* A faulty _compare_float: an infinity matches a large finite value and an
\* infinity of either sign.
CompareFloatInfinityIgnoresSign(self, expected_value) ==
    LET pa == ParseFloat(self.value)
        pb == ParseFloat(expected_value.value)
        a == pa.val
        b == pb.val
    IN  IF pa.raised \/ pb.raised THEN "value"
        ELSE IF a.kind = "nan" \/ b.kind = "nan"
        THEN (IF a.kind = b.kind THEN "" ELSE "value")
        ELSE IF a.kind = "inf" /\ b.kind # "inf"
        THEN (IF AboveThreshold(b) \/ BelowNegThreshold(b) THEN "" ELSE "value")
        ELSE IF b.kind = "inf" /\ a.kind # "inf"
        THEN (IF AboveThreshold(a) \/ BelowNegThreshold(a) THEN "" ELSE "value")
        ELSE IF a.kind = "inf" /\ b.kind = "inf" THEN ""
        ELSE IF FiniteClose(a, b) THEN "" ELSE "value"

\* A faulty _compare_float: an actual NaN matches every expected value that
\* is no infinity.
CompareFloatActualNaNMatches(self, expected_value) ==
    LET pa == ParseFloat(self.value)
        pb == ParseFloat(expected_value.value)
    IN  IF pa.raised \/ pb.raised THEN "value"
        ELSE IF pa.val.kind = "nan" THEN (IF pb.val.kind = "inf" THEN "value" ELSE "")
        ELSE IF pb.val.kind = "nan" THEN "value"
        ELSE IF pa.val.kind = "inf" \/ pb.val.kind = "inf"
        THEN (IF pa.val = pb.val THEN "" ELSE "value")
        ELSE IF FiniteClose(pa.val, pb.val) THEN "" ELSE "value"

\* Value._compare_float: "" for a match, else the difference
_compare_float(self, expected_value) ==
    LET pa == ParseFloat(self.value)
        pb == ParseFloat(expected_value.value)
        a == pa.val
        b == pb.val
    IN  IF pa.raised \/ pb.raised THEN "value"
        ELSE IF b.kind = "nan" THEN (IF a.kind # "nan" THEN "value" ELSE "")
        ELSE IF a.kind = "inf" /\ b.kind # "inf"
        THEN (IF (AboveThreshold(b) /\ a.sign = 1) \/ (BelowNegThreshold(b) /\ a.sign = -1)
              THEN "" ELSE "value")
        ELSE IF b.kind = "inf" /\ a.kind # "inf"
        THEN (IF (AboveThreshold(a) /\ b.sign = 1) \/ (BelowNegThreshold(a) /\ b.sign = -1)
              THEN "" ELSE "value")
        ELSE IF a.kind = "inf" /\ b.kind = "inf"
        THEN (IF a.sign = b.sign THEN "" ELSE "value")
        ELSE IF a.kind = "nan" THEN "value"
        ELSE IF FiniteClose(a, b) THEN "" ELSE "value"

\* Value.compare_with_expected: "" for a perfect match, else the difference
ValueCompare(self, expected_value) ==
    IF self.type # expected_value.type THEN "type"
    ELSE IF self.type # FloatType
    THEN (IF self.value # expected_value.value THEN "value" ELSE "")
    ELSE _compare_float(self, expected_value)

-----------------------------------------------------------------------------
(* utilities/lib/comparison_result.py, utilities/lib/outcome_data.py *)

\* ComparisonResult()
ComparisonResult == [status |-> "pass", differences |-> <<>>, score |-> 0]

\* One entry of ComparisonResult.differences: what kind of line it is and
\* the name it is about.
Difference(kind, name) == [kind |-> kind, name |-> name]

\* A faulty ACCEPTED_SYNTAX_ERRORS: the last entry of the list is missing.
AcceptedSyntaxErrorsWithoutLast == <<UnexpectedEnd, Character, LimitExceeded, Indentation>>

ACCEPTED_SYNTAX_ERRORS == <<UnexpectedEnd, Character, LimitExceeded, Indentation, Unsupported>>

ignored_meta_names == <<
    <<"@","v","e","r","s","i","o","n">>,
    <<"@","f","e","a","t","u","r","e","s">> >>

\* A faulty "x in xs": it looks at the first element of the list only.
InListFirstOnly(x, xs) == xs # <<>> /\ x = xs[1]

\* x in xs, for a list xs
InList(x, xs) == x \in Range(xs)

\* [n.lower() for n in sorted(values.keys()) if n not in ignored_meta_names]
NamePaths(values) ==
    LET Kept(n) == ~InList(n, ignored_meta_names)
        kept == SelectSeq(Sorted(DOMAIN values), Kept)
    IN  [i \in 1..Len(kept) |-> ToLower(kept[i])]

\* A faulty loop over the name paths: it stops at the first one it reports.
NotInFirstOnly(xs, others, kind) ==
    LET Lone(x) == ~InList(x, others)
        lone == SelectSeq(xs, Lone)
    IN  IF lone = <<>> THEN <<>> ELSE <<Difference(kind, lone[1])>>

\* one Difference(kind, x) for each x of xs that is not in others, in order
NotIn(xs, others, kind) ==
    LET Lone(x) == ~InList(x, others)
        lone == SelectSeq(xs, Lone)
    IN  [i \in 1..Len(lone) |-> Difference(kind, lone[i])]

\* the branch of compare_with_expected for two FAIL outcomes
CompareFail(self, expected) ==
    IF Len(self.error_classes) # 1 THEN Raise("ValueError")
    ELSE
    LET actual_error_class == self.error_classes[1]
    IN  IF ~InList(actual_error_class, expected.error_classes)
        THEN IF actual_error_class = Syntax
             THEN \* expected.error_classes[0] is evaluated: IndexError on an empty list
                  IF expected.error_classes = <<>> THEN Raise("IndexError")
                  ELSE IF InList(expected.error_classes[1], ACCEPTED_SYNTAX_ERRORS)
                  THEN Return([status |-> "pass_with_accepted_deviation",
                               differences |-> <<Difference("accepted", actual_error_class)>>,
                               score |-> 8])
                  ELSE Return([status |-> "fail",
                               differences |-> <<Difference("error_classes", actual_error_class)>>,
                               score |-> 0])
             ELSE Return([status |-> "fail",
                          differences |-> <<Difference("error_classes", actual_error_class)>>,
                          score |-> 0])
        ELSE Return([status |-> "pass", differences |-> <<>>, score |-> 10])

\* the branch of compare_with_expected for two PASS outcomes
ComparePass(self, expected) ==
    LET actual_name_paths == NamePaths(self.values)
        expected_name_paths == NamePaths(expected.values)
        name_differences ==
            NotIn(actual_name_paths, expected_name_paths, "unexpected")
            \o NotIn(expected_name_paths, actual_name_paths, "missing")
        Kept(n) == ~InList(n, ignored_meta_names)
        compared == SelectSeq(Sorted(DOMAIN self.values), Kept)
        Differs(n) == ValueCompare(self.values[n], expected.values[n]) # ""
        differing == SelectSeq(compared, Differs)
    IN  IF name_differences # <<>>
        THEN Return([status |-> "fail", differences |-> name_differences, score |-> 0])
        \* expected.values[name_path] with the key as the actual outcome spells it
        ELSE IF \E i \in DOMAIN compared : compared[i] \notin DOMAIN expected.values
        THEN Raise("KeyError")
        ELSE Return([status |-> IF differing # <<>> THEN "fail" ELSE "pass",
                     differences |-> [i \in 1..Len(differing) |-> Difference("value", differing[i])],
                     score |-> 10])

\* A faulty compare_with_expected: it lacks the test of the two statuses.
CompareWithoutStatusTest(self, expected) ==
    IF self.status = "FAIL" THEN CompareFail(self, expected)
    ELSE ComparePass(self, expected)

\* OutcomeData.compare_with_expected
compare_with_expected(self, expected) ==
    IF self.status # expected.status
    THEN Return([status |-> "fail", differences |-> <<Difference("status", <<>>)>>, score |-> 0])
    ELSE IF self.status = "FAIL" THEN CompareFail(self, expected)
    ELSE ComparePass(self, expected)

-----------------------------------------------------------------------------
(* utilities/lib/adapter_runner.py *)

\* What one start of the adapter executable does: it outlives the timeout,
\* or it ends with an exit status and has written stdout.
TimedOut == [kind |-> "timeout", returncode |-> 0, stdout |-> <<>>]
Exited(returncode, stdout) == [kind |-> "exit", returncode |-> returncode, stdout |-> stdout]

\* The handler "except Error as e" of AdapterRunner.run: it prints result.stdout
\* and re-raises.  result is still None when subprocess.run raised, and
\* None.stdout raises AttributeError in place of the Error.
RunHandler(result_is_none, raised) ==
    IF raised.exc = "Error"
    THEN (IF result_is_none THEN Raise("AttributeError") ELSE raised)
    ELSE raised

\* A faulty AdapterRunner.run: it returns the outcome of exit status 1 without
\* counting its error classes.
AdapterRunWithoutCountTest(behaviour) ==
    IF behaviour.kind = "timeout" THEN RunHandler(TRUE, Raise("Error"))
    ELSE IF behaviour.returncode = 0
    THEN LET r == parse_pass(behaviour.stdout)
         IN  IF r.raised THEN RunHandler(FALSE, r) ELSE r
    ELSE IF behaviour.returncode = 1
    THEN LET r == parse_fail(behaviour.stdout)
         IN  IF r.raised THEN RunHandler(FALSE, r) ELSE r
    ELSE RunHandler(FALSE, Raise("Error"))

\* A faulty AdapterRunner.run: it decodes stdout as a Pass outcome for every
\* exit status but 1.
AdapterRunOtherStatusAsPass(behaviour) ==
    IF behaviour.kind = "timeout" THEN RunHandler(TRUE, Raise("Error"))
    ELSE IF behaviour.returncode = 1
    THEN LET r == parse_fail(behaviour.stdout)
         IN  IF r.raised THEN RunHandler(FALSE, r)
             ELSE IF Len(r.val.error_classes) # 1 THEN RunHandler(FALSE, Raise("Error"))
             ELSE r
    ELSE LET r == parse_pass(behaviour.stdout)
         IN  IF r.raised THEN RunHandler(FALSE, r) ELSE r

\* AdapterRunner.run(test_file), given what the adapter does
AdapterRun(behaviour) ==
    IF behaviour.kind = "timeout" THEN RunHandler(TRUE, Raise("Error"))
    ELSE IF behaviour.returncode = 0
    THEN LET r == parse_pass(behaviour.stdout)
         IN  IF r.raised THEN RunHandler(FALSE, r) ELSE r
    ELSE IF behaviour.returncode = 1
    THEN LET r == parse_fail(behaviour.stdout)
         IN  IF r.raised THEN RunHandler(FALSE, r)
             ELSE IF Len(r.val.error_classes) # 1 THEN RunHandler(FALSE, Raise("Error"))
             ELSE r
    ELSE RunHandler(FALSE, Raise("Error"))

-----------------------------------------------------------------------------
(* conformance_test.py *)

ParserTier == {"minimal", "standard", "full"}
OutputFormat == {"text", "json"}

\* the names of the directories under tests/V1_0
D == [
    byte_count |-> <<"b","y","t","e","-","c","o","u","n","t">>,
    byte_data |-> <<"b","y","t","e","-","d","a","t","a">>,
    code |-> <<"c","o","d","e">>,
    core |-> <<"c","o","r","e">>,
    date_time |-> <<"d","a","t","e","-","t","i","m","e">>,
    float |-> <<"f","l","o","a","t">>,
    multiline_byte_data |-> <<"m","u","l","t","i","l","i","n","e","-","b","y","t","e","-","d","a","t","a">>,
    multiline_code |-> <<"m","u","l","t","i","l","i","n","e","-","c","o","d","e">>,
    multiline_regex |-> <<"m","u","l","t","i","l","i","n","e","-","r","e","g","e","x">>,
    multiline_text |-> <<"m","u","l","t","i","l","i","n","e","-","t","e","x","t">>,
    regex |-> <<"r","e","g","e","x">>,
    section_list |-> <<"s","e","c","t","i","o","n","-","l","i","s","t">>,
    text_names |-> <<"t","e","x","t","-","n","a","m","e","s">>,
    time_delta |-> <<"t","i","m","e","-","d","e","l","t","a">>,
    value_list |-> <<"v","a","l","u","e","-","l","i","s","t">> ]

TIERS ==
    [t \in ParserTier |->
        CASE t = "minimal"  -> <<D.byte_count, D.core, D.float>>
          [] t = "standard" -> <<D.byte_count, D.byte_data, D.code, D.core, D.date_time, D.float,
                                 D.multiline_byte_data, D.multiline_code, D.multiline_text,
                                 D.section_list, D.text_names, D.value_list>>
          [] t = "full"     -> <<D.byte_count, D.byte_data, D.code, D.core, D.date_time, D.float,
                                 D.multiline_byte_data, D.multiline_code, D.multiline_regex,
                                 D.multiline_text, D.regex, D.section_list, D.text_names,
                                 D.time_delta, D.value_list>>]

\* A file of the corpus: tests/V1_0/<dir>/<stem>.elcl, and the text of its
\* sibling <stem>.out when that file exists.
CorpusFile(dir, stem, has_out, out_text) ==
    [dir |-> dir, stem |-> stem, has_out |-> has_out, out_text |-> out_text]

ElclName(stem) == stem \o <<".","e","l","c","l">>
\* Path.with_suffix(".out")
OutName(stem)  == stem \o <<".","o","u","t">>

\* TestCase.result before a result is stored (None)
NoResult == [status |-> "none", differences |-> <<>>, score |-> 0]

\* TestCase(identifier, test_path)
TestCase(identifier, file) ==
    [identifier |-> identifier, dir |-> file.dir, stem |-> file.stem, result |-> NoResult]

\* Path.__lt__ on test_path: the parts are compared as a list of str
PathLess(t, u) ==
    \/ StrLess(t.dir, u.dir)
    \/ t.dir = u.dir /\ StrLess(ElclName(t.stem), ElclName(u.stem))

\* list.sort(key=lambda x: x.test_path)
RECURSIVE SortByPath(_)
SortByPath(S) ==
    IF S = {} THEN <<>>
    ELSE LET m == CHOOSE x \in S : \A y \in S \ {x} : PathLess(x, y)
         IN  <<m>> \o SortByPath(S \ {m})

\* A faulty loop of scan_test_cases: it does not look for the outcome file.
RECURSIVE ScanLoopWithoutOutcomeTest(_, _, _)
ScanLoopWithoutOutcomeTest(files, included, cases) ==
    IF files = <<>> THEN Return(cases)
    ELSE IF ~InList(Head(files).dir, included)
    THEN ScanLoopWithoutOutcomeTest(Tail(files), included, cases)
    ELSE ScanLoopWithoutOutcomeTest(Tail(files), included,
                                    Append(cases, TestCase(Len(cases), Head(files))))

\* The loop of scan_test_cases over the files rglob has yet to yield: the
\* test cases appended so far, and whether that loop raised.
RECURSIVE ScanLoop(_, _, _)
ScanLoop(files, included, cases) ==
    IF files = <<>> THEN Return(cases)
    ELSE
    LET file == Head(files)
    IN  IF ~InList(file.dir, included) THEN ScanLoop(Tail(files), included, cases)
        ELSE LET test_case == TestCase(Len(cases), file)
             IN  IF ~file.has_out
                 THEN [raised |-> TRUE, exc |-> "Error", val |-> Append(cases, test_case)]
                 ELSE ScanLoop(Tail(files), included, Append(cases, test_case))

\* the file of the corpus a test case was made from
FileOf(test_case, files) ==
    CHOOSE f \in Range(files) : f.dir = test_case.dir /\ f.stem = test_case.stem

\* What pool.map holds for one test case once its worker is done.
Pending == [state |-> "pending", exc |-> "", result |-> NoResult]
Returned(result) == [state |-> "returned", exc |-> "", result |-> result]
Raised(exc) == [state |-> "raised", exc |-> exc, result |-> NoResult]

\* the ComparisonResult the handler of _process_test_case builds
ErrorResult == [status |-> "fail", differences |-> <<Difference("error", <<>>)>>, score |-> 0]

\* What _process_test_case does with the outcome of a call: an Error goes to
\* its handler, which returns ErrorResult; any other exception leaves it.
Caught(call) == IF call.exc = "Error" THEN Returned(ErrorResult) ELSE Raised(call.exc)

\* return test_case, result.compare_with_expected(expected)
ProcessCompared(compared) ==
    IF compared.raised THEN Caught(compared) ELSE Returned(compared.val)

\* expected = parse_outcome(test_case.outcome_path)
ProcessExpected(actual, expected) ==
    IF expected.raised THEN Caught(expected)
    ELSE ProcessCompared(compare_with_expected(actual, expected.val))

\* result = adapter.run(test_case.test_path)
ProcessRun(file, result) ==
    IF result.raised THEN Caught(result)
    ELSE ProcessExpected(result.val, parse_outcome(OutName(file.stem), file.out_text))

\* WorkingSet._process_test_case((test_case, adapter))
_process_test_case(file, behaviour) == ProcessRun(file, AdapterRun(behaviour))

\* WorkingSet() after parse_arguments
WorkingSet(format) ==
    [format |-> format, result |-> "pass", passed_test_count |-> 0,
     passed_with_deviation_test_count |-> 0, failed_test_count |-> 0, score |-> 0]

\* A faulty loop of run_tests: it has no branch for
\* PASS_WITH_ACCEPTED_DEVIATION and counts such a result as passed.
RECURSIVE TallyWithoutDeviation(_, _)
TallyWithoutDeviation(results, w) ==
    IF results = <<>> THEN w
    ELSE LET result == Head(results)
         IN  TallyWithoutDeviation(Tail(results),
                [w EXCEPT
                   !.result = IF result.status = "fail" THEN "fail" ELSE @,
                   !.failed_test_count = IF result.status = "fail" THEN @ + 1 ELSE @,
                   !.passed_test_count = IF result.status # "fail" THEN @ + 1 ELSE @,
                   !.score = @ + result.score])

\* The loop of run_tests over the results pool.map returned.
RECURSIVE Tally(_, _)
Tally(results, w) ==
    IF results = <<>> THEN w
    ELSE LET result == Head(results)
         IN  Tally(Tail(results),
                [w EXCEPT
                   !.result = IF result.status = "fail" THEN "fail" ELSE @,
                   !.failed_test_count = IF result.status = "fail" THEN @ + 1 ELSE @,
                   !.passed_with_deviation_test_count =
                       IF result.status = "pass_with_accepted_deviation" THEN @ + 1 ELSE @,
                   !.passed_test_count =
                       IF result.status \notin {"fail", "pass_with_accepted_deviation"}
                       THEN @ + 1 ELSE @,
                   !.score = @ + result.score])

\* _output_text_details stops after this many test cases
DetailLimit == 10

FirstN(s, n) == SubSeq(s, 1, Min(Len(s), n))

\* the test cases output_text and output_json list, in the order they list them
Listed(format, cases) ==
    LET Failed(t) == t.result.status = "fail"
        Deviating(t) == t.result.status = "pass_with_accepted_deviation"
        NotPass(t) == t.result.status # "pass"
    IN  IF format = "text"
        THEN FirstN(SelectSeq(cases, Failed), DetailLimit)
             \o FirstN(SelectSeq(cases, Deviating), DetailLimit)
        ELSE SelectSeq(cases, NotPass)

NoReport == [written |-> FALSE]
Report(w, t, cases) ==
    [written |-> TRUE, format |-> w.format, result |-> w.result,
     total_test_count |-> Len(cases),
     passed_test_count |-> w.passed_test_count,
     passed_with_deviation_test_count |-> w.passed_with_deviation_test_count,
     failed_test_count |-> w.failed_test_count,
     score |-> w.score, tier |-> t,
     differences |-> Listed(w.format, cases)]

-----------------------------------------------------------------------------
(* The texts the model is run on *)

IntegerType == <<"I","n","t","e","g","e","r">>

\* the lines of the documents and of the adapter's stdout
Line ==
    LET FAIL_eq == <<"F","A","I","L"," ","=">>
    IN  [
        a_Int1 |-> <<"a"," ","="," ">> \o IntegerType \o <<"(","1",")">>,
        a_Int2 |-> <<"a"," ","="," ">> \o IntegerType \o <<"(","2",")">>,
        a_Int2_tight |-> <<"a","=">> \o IntegerType \o <<"(","2",")">>,
        A_Int1 |-> <<"A"," ","="," ">> \o IntegerType \o <<"(","1",")">>,
        b_Float |-> <<"b"," ","="," ">> \o FloatType \o <<"(","1",".","5",")">>,
        comment |-> <<"#"," ","c">>,
        blank |-> <<" ">>,
        garbage |-> <<"a"," ","b">>,
        fail_none |-> FAIL_eq,
        fail_Syntax |-> FAIL_eq \o <<" ">> \o Syntax,
        fail_Character |-> FAIL_eq \o <<" ">> \o Character,
        fail_lower |-> <<"f","a","i","l","=">> \o ToLower(Syntax),
        fail_Bogus |-> FAIL_eq \o <<" ","B","o","g","u","s">>,
        fail_two |-> FAIL_eq \o <<" ">> \o Syntax \o <<"|">> \o IO,
        fail_CharSyn |-> FAIL_eq \o <<" ">> \o Character \o <<"|">> \o Syntax,
        fail_message |-> FAIL_eq \o <<" ">> \o Syntax \o <<"(","m",")">> ]
\* a_Int1 "a = Integer(1)", a_Int2 "a = Integer(2)", a_Int2_tight "a=Integer(2)",
\* A_Int1 "A = Integer(1)", b_Float "b = Float(1.5)", comment "# c", garbage "a b",
\* fail_none "FAIL =", fail_Syntax "FAIL = Syntax", fail_Character "FAIL = Character",
\* fail_lower "fail=syntax", fail_Bogus "FAIL = Bogus", fail_two "FAIL = Syntax|IO",
\* fail_CharSyn "FAIL = Character|Syntax", fail_message "FAIL = Syntax(m)"

\* --- documents to decode ---
MaxDocLines == 2

DecodeLines == {Line.a_Int1, Line.a_Int2, Line.a_Int2_tight, Line.A_Int1, Line.b_Float,
                Line.comment, Line.blank, Line.garbage,
                Line.fail_none, Line.fail_Syntax, Line.fail_lower, Line.fail_Bogus,
                Line.fail_CharSyn, Line.fail_message}

Documents == UNION {[1..n -> DecodeLines] : n \in 0..MaxDocLines}

\* --- outcomes to compare ---
MaxKeys == 2
MaxClasses == 2

MetaVersion == ignored_meta_names[1]

\* a, A, b, @version and @Version
CompareNames == {<<"a">>, <<"A">>, <<"b">>, MetaVersion, <<"@","V","e","r","s","i","o","n">>}

\* Float(nan), Float(1.5) and Float(abc)
CompareValues == {Value(FloatType, <<"n","a","n">>), Value(FloatType, <<"1",".","5">>),
                  Value(FloatType, <<"a","b","c">>)}

CompareClasses == {Syntax, IO, UnexpectedEnd, Character, LimitExceeded, Indentation, Unsupported}

PassOutcome(values) == [OutcomeData("PASS") EXCEPT !.values = values]
FailOutcome(error_classes) == [OutcomeData("FAIL") EXCEPT !.error_classes = error_classes]

PassOutcomes ==
    {PassOutcome(f) : f \in UNION {[K -> CompareValues] :
                                   K \in {K \in SUBSET CompareNames : Cardinality(K) <= MaxKeys}}}

\* lists without a duplicate, as parse_fail builds them
ClassLists ==
    {l \in UNION {[1..n -> CompareClasses] : n \in 0..MaxClasses} :
        \A i, j \in DOMAIN l : i # j => l[i] # l[j]}

\* what AdapterRunner.run can return: a PASS outcome, or a FAIL outcome of one class
ActualOutcomes == PassOutcomes \cup {FailOutcome(<<c>>) : c \in CompareClasses}

\* what parse_outcome can return
ExpectedOutcomes == PassOutcomes \cup {FailOutcome(l) : l \in ClassLists}

\* a Pass outcome with the one value a = Float(text)
FloatOutcome(text) == PassOutcome([k \in {<<"a">>} |-> Value(FloatType, text)])

\* --- the corpus and the adapter of a run ---
MaxFiles == 2

CorpusFiles == {
    CorpusFile(D.core,  <<"P","A","S","S","-","a">>, TRUE,  <<Line.a_Int1>>),
    CorpusFile(D.core,  <<"F","A","I","L","-","b">>, TRUE,  <<Line.fail_Character>>),
    CorpusFile(D.float, <<"F","A","I","L","-","c">>, TRUE,  <<Line.fail_none>>),
    CorpusFile(D.regex, <<"F","A","I","L","-","P","A","S","S","-","d">>, TRUE,
               <<Line.fail_Character>>),
    CorpusFile(D.regex, <<"P","A","S","S","-","e">>, FALSE, <<>>),
    CorpusFile(D.core,  <<"x","-","f">>, TRUE,  <<Line.a_Int1>>),
    CorpusFile(D.float, <<"F","A","I","L","-","g">>, TRUE,  <<Line.fail_Bogus>>) }

Reverse(s) == [i \in 1..Len(s) |-> s[Len(s) + 1 - i]]

\* At most MaxFiles files, in the orders in which rglob yields them: here in
\* the order of their paths, or in the reverse of it.
Corpora ==
    UNION {{SortByPath(S), Reverse(SortByPath(S))} :
              S \in {S \in SUBSET CorpusFiles : Cardinality(S) <= MaxFiles}}

AdapterBehaviours == {
    TimedOut,
    Exited(0, <<Line.a_Int1>>),
    Exited(0, <<Line.a_Int2>>),
    Exited(0, <<Line.A_Int1>>),
    Exited(0, <<Line.garbage>>),
    Exited(0, <<Line.fail_Syntax>>),
    Exited(1, <<Line.fail_Syntax>>),
    Exited(1, <<Line.fail_Character>>),
    Exited(1, <<Line.fail_Bogus>>),
    Exited(1, <<Line.fail_none>>),
    Exited(1, <<Line.fail_two>>),
    Exited(1, <<Line.a_Int1>>),
    Exited(3, <<Line.a_Int1>>) }

\* AdapterRunner.run and _process_test_case on these files and behaviours,
\* computed once
Ran == [behaviour \in AdapterBehaviours |-> AdapterRun(behaviour)]
Processed ==
    [file \in CorpusFiles, behaviour \in AdapterBehaviours |->
        _process_test_case(file, behaviour)]

-----------------------------------------------------------------------------
(* The conformance run: WorkingSet.run *)

RunIdle ==
    /\ pc = "idle" /\ tier = "full" /\ corpus = <<>> /\ adapter = <<>> /\ test_cases = <<>>
    /\ called = <<>> /\ workerOut = <<>> /\ ws = WorkingSet("text")
    /\ report = NoReport /\ exitCode = -1
CmpIdle ==
    /\ cmpActual = OutcomeData("PASS") /\ cmpExpected = OutcomeData("PASS")
    /\ cmpResult = [done |-> FALSE, out |-> Raise("")]
DecIdle ==
    /\ docText = <<>> /\ decoded = [decoder |-> "none", out |-> Raise("")]

Init ==
    /\ pc = "parse_arguments"
    /\ tier \in ParserTier
    /\ corpus \in Corpora
    /\ adapter = <<>> /\ test_cases = <<>> /\ called = <<>> /\ workerOut = <<>>
    /\ ws = WorkingSet("text")
    /\ report = NoReport
    /\ exitCode = -1
    /\ CmpIdle /\ DecIdle

\* parse_arguments: the adapter path is no file, or the language version is
\* not "1.0" (Error, exit 2); else the format is taken from the command line.
\* The tier of the command line is the one Init chose.
ParseArguments ==
    /\ pc = "parse_arguments"
    /\ \E ok \in BOOLEAN, format \in OutputFormat :
        IF ok
        THEN /\ ws' = WorkingSet(format)
             /\ pc' = "scan_test_cases"
             /\ exitCode' = exitCode
        ELSE /\ format = "text"
             /\ ws' = ws
             /\ pc' = "exited"
             /\ exitCode' = 2
    /\ UNCHANGED <<tier, corpus, adapter, test_cases, called, workerOut, report>>
    /\ UNCHANGED <<cmpVars, decVars>>

\* A faulty end of scan_test_cases: it lacks "if not self.test_cases".
ScanFailedWithoutEmptyTest(scanned) == scanned.raised

\* scan_test_cases raises Error: in its loop, or after it for an empty list
ScanFailed(scanned) == scanned.raised \/ scanned.val = <<>>

\* scan_test_cases, and the handler of run when it raises Error
ScanTestCases ==
    /\ pc = "scan_test_cases"
    /\ LET scanned == ScanLoop(corpus, TIERS[tier], <<>>)
       IN  IF ScanFailed(scanned)
           THEN /\ test_cases' = scanned.val
                /\ pc' = "exited"
                /\ exitCode' = 2
                /\ UNCHANGED <<adapter, called, workerOut>>
           ELSE /\ test_cases' = SortByPath(Range(scanned.val))
                /\ pc' = "run_tests"
                /\ exitCode' = exitCode
                /\ adapter' = [i \in 0..(Len(scanned.val) - 1) |-> TimedOut]
                /\ called' = [i \in 0..(Len(scanned.val) - 1) |-> 0]
                /\ workerOut' = [i \in 0..(Len(scanned.val) - 1) |-> Pending]
    /\ UNCHANGED <<tier, corpus, ws, report>>
    /\ UNCHANGED <<cmpVars, decVars>>

\* One worker of the pool runs _process_test_case on one test case: it starts
\* the adapter, which does one of the things an adapter can do.
ProcessTestCase(i) ==
    /\ pc = "run_tests"
    /\ workerOut[i].state = "pending"
    /\ \E behaviour \in AdapterBehaviours :
        LET test_case == CHOOSE t \in Range(test_cases) : t.identifier = i
        IN  /\ adapter' = [adapter EXCEPT ![i] = behaviour]
            /\ called' = [called EXCEPT ![i] = @ + 1]
            /\ workerOut' = [workerOut EXCEPT
                                ![i] = Processed[FileOf(test_case, corpus), behaviour]]
    /\ UNCHANGED <<pc, tier, corpus, test_cases, ws, report, exitCode>>
    /\ UNCHANGED <<cmpVars, decVars>>

\* pool.map returns once every worker is done, and the rest of run_tests
\* tallies the results in the order of test_cases.  An exception a worker
\* raised is raised again by pool.map: it is no Error, run does not catch it,
\* and the interpreter ends with a traceback and exit status 1.
CollectResults ==
    /\ pc = "run_tests"
    /\ \A i \in DOMAIN workerOut : workerOut[i].state # "pending"
    /\ IF \E i \in DOMAIN workerOut : workerOut[i].state = "raised"
       THEN /\ pc' = "exited"
            /\ exitCode' = 1
            /\ UNCHANGED <<test_cases, ws>>
       ELSE /\ test_cases' = [k \in DOMAIN test_cases |->
                                [test_cases[k] EXCEPT
                                    !.result = workerOut[test_cases[k].identifier].result]]
            /\ ws' = Tally([k \in DOMAIN test_cases |->
                                workerOut[test_cases[k].identifier].result], ws)
            /\ pc' = "output_results"
            /\ exitCode' = exitCode
    /\ UNCHANGED <<tier, corpus, adapter, called, workerOut, report>>
    /\ UNCHANGED <<cmpVars, decVars>>

\* output_results: output_text or output_json
OutputResults ==
    /\ pc = "output_results"
    /\ report' = Report(ws, tier, test_cases)
    /\ pc' = "exit"
    /\ UNCHANGED <<tier, corpus, adapter, test_cases, called, workerOut, ws, exitCode>>
    /\ UNCHANGED <<cmpVars, decVars>>

\* the last lines of run: exit(1) or exit(0)
Exit ==
    /\ pc = "exit"
    /\ exitCode' = IF ws.result = "fail" THEN 1 ELSE 0
    /\ pc' = "exited"
    /\ UNCHANGED <<tier, corpus, adapter, test_cases, called, workerOut, ws, report>>
    /\ UNCHANGED <<cmpVars, decVars>>

Next ==
    \/ ParseArguments
    \/ ScanTestCases
    \/ \E i \in DOMAIN workerOut : ProcessTestCase(i)
    \/ CollectResults
    \/ OutputResults
    \/ Exit

Spec == Init /\ [][Next]_vars

\* The interpreter runs each step of run to its end, and the pool hands every
\* test case to a worker process that runs it to its end: a step that can be
\* taken is taken.
FairSpec == Spec /\ WF_vars(Next)

-----------------------------------------------------------------------------
(* One comparison: compare_with_expected applied to a pair of outcomes *)

InitCompare ==
    /\ cmpActual \in ActualOutcomes
    /\ cmpExpected \in ExpectedOutcomes
    /\ cmpResult = [done |-> FALSE, out |-> Raise("")]
    /\ RunIdle /\ DecIdle

Compare ==
    /\ ~cmpResult.done
    /\ cmpResult' = [done |-> TRUE, out |-> compare_with_expected(cmpActual, cmpExpected)]
    /\ UNCHANGED <<cmpActual, cmpExpected>>
    /\ UNCHANGED <<runVars, decVars>>

NextCompare == Compare

SpecCompare == InitCompare /\ [][NextCompare]_vars

\* One comparison of two outcomes with one Float value each
InitFloat ==
    /\ cmpActual \in {FloatOutcome(text) : text \in FloatTexts}
    /\ cmpExpected \in {FloatOutcome(text) : text \in FloatTexts}
    /\ cmpResult = [done |-> FALSE, out |-> Raise("")]
    /\ RunIdle /\ DecIdle

SpecFloat == InitFloat /\ [][NextCompare]_vars

-----------------------------------------------------------------------------
(* One decoding: parse_pass or parse_fail applied to a document *)

InitDecode ==
    /\ docText \in Documents
    /\ decoded = [decoder |-> "none", out |-> Raise("")]
    /\ RunIdle /\ CmpIdle

DecodePass ==
    /\ decoded.decoder = "none"
    /\ decoded' = [decoder |-> "parse_pass", out |-> parse_pass(docText)]
    /\ UNCHANGED docText
    /\ UNCHANGED <<runVars, cmpVars>>

DecodeFail ==
    /\ decoded.decoder = "none"
    /\ decoded' = [decoder |-> "parse_fail", out |-> parse_fail(docText)]
    /\ UNCHANGED docText
    /\ UNCHANGED <<runVars, cmpVars>>

NextDecode == DecodePass \/ DecodeFail

SpecDecode == InitDecode /\ [][NextDecode]_vars


-----------------------------------------------------------------------------
(* The claims about the conformance run (Spec, FairSpec) *)

\* the run got past scan_test_cases with at least one test case
ReachedExecution == pc \in {"run_tests", "output_results", "exit"}

\* the worker of test case i is done
WorkerDone(i) == called[i] = 1 /\ workerOut[i].state # "pending"

\* the worker of test case i returned a Fail ComparisonResult of score 0 that
\* carries a difference
FailedCase(i) ==
    /\ workerOut[i].state = "returned"
    /\ workerOut[i].result.status = "fail"
    /\ workerOut[i].result.score = 0
    /\ workerOut[i].result.differences # <<>>

\* a class token of a FAIL line of the document is no name of an ErrorClass
HasUnknownClass(doc) ==
    \E n \in DOMAIN doc :
        LET match == MatchFailLine(Strip(doc[n]))
            tokens == Split(match.g1, "|")
        IN  /\ match.ok
            /\ \E t \in DOMAIN tokens :
                   LET error == MatchFailError(Strip(tokens[t]))
                   IN  error.ok /\ ToLower(error.g1) \notin DOMAIN error_class_str_map

\* C1: a run that has reached test execution eventually ends with a report
\* written and exit code 0 or 1, with no worker's exception ending the batch,
\* whatever the adapter did and whatever the expected-outcome files hold.
C1_ReportAfterExecution ==
    ReachedExecution ~>
        (/\ pc = "exited" /\ report.written /\ exitCode \in {0, 1}
         /\ \A i \in DOMAIN workerOut : workerOut[i].state = "returned")

\* C2: a test case whose adapter outlived the timeout is recorded as Fail with
\* score 0 and a difference, and the run it is part of ends with a report
\* over all test cases and exit code 1.
C2_TimeoutIsOneFailedCase ==
    \A i \in DOMAIN workerOut :
        (WorkerDone(i) /\ adapter[i].kind = "timeout") =>
            /\ FailedCase(i)
            /\ pc = "exited" =>
                   /\ report.written /\ exitCode = 1
                   /\ report.total_test_count = Len(test_cases)

\* C3: a class token that is no ErrorClass name, in the adapter's stdout at
\* exit status 1 or in the expected-outcome FAIL file of a test case whose
\* adapter returned an outcome, gives that test case a Fail ComparisonResult.
C3_UnknownClassIsFailedCase ==
    \A i \in DOMAIN workerOut :
        LET file == FileOf(CHOOSE t \in Range(test_cases) : t.identifier = i, corpus)
            from_adapter ==
                /\ adapter[i].kind = "exit" /\ adapter[i].returncode = 1
                /\ HasUnknownClass(adapter[i].stdout)
            from_file ==
                /\ ~Ran[adapter[i]].raised
                /\ ~Contains(<<"P","A","S","S">>, OutName(file.stem))
                /\ Contains(<<"F","A","I","L">>, OutName(file.stem))
                /\ HasUnknownClass(file.out_text)
        IN  (WorkerDone(i) /\ (from_adapter \/ from_file)) => FailedCase(i)

\* C4: every ComparisonResult a worker returned has score 10 with verdict
\* Pass, 8 with PassWithAcceptedDeviation and 0 with Fail.
C4_ScoreFollowsVerdict ==
    \A i \in DOMAIN workerOut :
        workerOut[i].state = "returned" =>
            workerOut[i].result.score =
                CASE workerOut[i].result.status = "pass" -> 10
                  [] workerOut[i].result.status = "pass_with_accepted_deviation" -> 8
                  [] OTHER -> 0


-----------------------------------------------------------------------------
(* The claims about one decoding (SpecDecode) *)

\* lines m and n of the document are value lines with the same name-path
SameNamePath(doc, m, n) ==
    LET first == MatchValueLine(Strip(doc[m]))
        second == MatchValueLine(Strip(doc[n]))
    IN  first.ok /\ second.ok /\ Strip(first.g1) = Strip(second.g1)

\* C6: decoding a Pass document in which two value lines carry the same
\* name-path is a decode error, so no outcome is returned for it.
C6_DuplicateNamePathIsDecodeError ==
    (/\ decoded.decoder = "parse_pass"
     /\ \E m, n \in DOMAIN docText : m # n /\ SameNamePath(docText, m, n))
    => (decoded.out.raised /\ decoded.out.exc = "Error")

-----------------------------------------------------------------------------
(* The claims about one comparison (SpecCompare) *)

BothPass == cmpResult.done /\ cmpActual.status = "PASS" /\ cmpExpected.status = "PASS"
BothFail == cmpResult.done /\ cmpActual.status = "FAIL" /\ cmpExpected.status = "FAIL"

\* the comparison returned Pass with score 10 and no difference
ExactPass == cmpResult.out = Return([status |-> "pass", differences |-> <<>>, score |-> 10])

\* the comparison returned Fail with score 0
FailZero ==
    /\ ~cmpResult.out.raised
    /\ cmpResult.out.val.status = "fail" /\ cmpResult.out.val.score = 0

\* the keys that are compared: all but the meta keys
Checked(values) == {k \in DOMAIN values : ~InList(k, ignored_meta_names)}

\* no two checked keys of the outcome differ in letter case only
FoldsApart(values) ==
    \A j, k \in Checked(values) : ToLower(j) = ToLower(k) => j = k

\* Every checked key of xs has a key of ys that is the same after case
\* folding, and the values under the two match.
Corresponds(xs, ys) ==
    \A j \in Checked(xs) : \E k \in Checked(ys) :
        ToLower(j) = ToLower(k) /\ ValueCompare(xs[j], ys[k]) = ""

\* the raw text of every Float value of the outcome is a floating-point number
FloatsParse(values) ==
    \A k \in DOMAIN values :
        values[k].type = FloatType => ~ParseFloat(values[k].value).raised

\* C5: two Pass outcomes with the same key set after case folding and
\* matching values under corresponding keys compare as Pass with score 10 and
\* no difference, also when the letter case of a key differs between them.
C5_KeysMatchIgnoringCase ==
    (/\ BothPass
     /\ FoldsApart(cmpActual.values) /\ FoldsApart(cmpExpected.values)
     /\ Corresponds(cmpActual.values, cmpExpected.values)
     /\ Corresponds(cmpExpected.values, cmpActual.values))
    => ExactPass

\* C7, as stated: two identical Pass outcomes (the same keys, and the same
\* type tag and raw text under every key) compare as Pass with score 10 and
\* no difference.
C7_IdenticalPassOutcomes ==
    (BothPass /\ cmpActual.values = cmpExpected.values) => ExactPass

\* C7, amended: two identical Pass outcomes in which the raw text of every
\* Float value is a floating-point number compare as Pass with score 10 and
\* no difference.
C7_IdenticalParsablePassOutcomes ==
    (BothPass /\ cmpActual.values = cmpExpected.values /\ FloatsParse(cmpActual.values))
    => ExactPass

\* two identical Pass outcomes that hold a Float NaN and a finite Float under
\* checked keys have been compared
C7_Witness ==
    /\ BothPass /\ cmpActual.values = cmpExpected.values /\ FloatsParse(cmpActual.values)
    /\ \E j, k \in Checked(cmpActual.values) :
        /\ cmpActual.values[j] = Value(FloatType, <<"n","a","n">>)
        /\ cmpActual.values[k] = Value(FloatType, <<"1",".","5">>)


\* the actual class is Syntax and the first class of the expected list is one
\* of UnexpectedEnd, Character, LimitExceeded, Indentation, Unsupported
SyntaxForPrimary ==
    /\ BothFail
    /\ cmpActual.error_classes = <<Syntax>>
    /\ cmpExpected.error_classes # <<>>
    /\ cmpExpected.error_classes[1] \in
           {UnexpectedEnd, Character, LimitExceeded, Indentation, Unsupported}

\* the comparison returned PassWithAcceptedDeviation with score 8 and one
\* difference
AcceptedDeviation ==
    /\ ~cmpResult.out.raised
    /\ cmpResult.out.val.status = "pass_with_accepted_deviation"
    /\ cmpResult.out.val.score = 8
    /\ Len(cmpResult.out.val.differences) = 1

\* C8, as stated: actual Syntax against an expected list whose first class is
\* in the accepted set is PassWithAcceptedDeviation with score 8 and one
\* difference.
C8_SyntaxForPrimaryIsDeviation == SyntaxForPrimary => AcceptedDeviation

\* C8, amended: actual Syntax against an expected list whose first class is
\* in the accepted set and which does not list Syntax is
\* PassWithAcceptedDeviation with score 8 and one difference.
C8_SyntaxNotListedIsDeviation ==
    (SyntaxForPrimary /\ ~InList(Syntax, cmpExpected.error_classes)) => AcceptedDeviation

\* actual Syntax has been compared with an expected list of two classes that
\* starts with Unsupported and does not hold Syntax
C8_Witness ==
    /\ SyntaxForPrimary /\ AcceptedDeviation
    /\ Len(cmpExpected.error_classes) = 2
    /\ cmpExpected.error_classes[1] = Unsupported
    /\ cmpExpected.error_classes[2] # Syntax

\* C9: a single actual class that is in the expected class list, at any
\* position of it, compares as Pass with score 10 and no difference.
C9_ListedClassIsPass ==
    (/\ BothFail
     /\ Len(cmpActual.error_classes) = 1
     /\ \E n \in DOMAIN cmpExpected.error_classes :
            cmpExpected.error_classes[n] = cmpActual.error_classes[1])
    => ExactPass

\* an actual class has been compared with an expected list that holds it at
\* its last position, behind another class
C9_Witness ==
    /\ BothFail /\ ExactPass
    /\ Len(cmpActual.error_classes) = 1
    /\ Len(cmpExpected.error_classes) = MaxClasses
    /\ MaxClasses > 1
    /\ cmpExpected.error_classes[MaxClasses] = cmpActual.error_classes[1]

\* C10: an actual class that is not in the expected list, where the deviation
\* rule does not apply (the actual class is not Syntax, or the first class of
\* the expected list is not in the accepted set), compares as Fail with
\* score 0.
C10_UnlistedClassIsFail ==
    (/\ BothFail
     /\ Len(cmpActual.error_classes) = 1
     /\ \A n \in DOMAIN cmpExpected.error_classes :
            cmpExpected.error_classes[n] # cmpActual.error_classes[1]
     /\ ~SyntaxForPrimary)
    => FailZero

\* C11: a Pass outcome against a Fail outcome, or a Fail outcome against a
\* Pass outcome, compares as Fail with score 0 and the one difference that
\* names the two statuses, whatever values and error classes they hold.
C11_StatusMismatchIsFail ==
    (cmpResult.done /\ cmpActual.status # cmpExpected.status)
    => cmpResult.out = Return([status |-> "fail",
                               differences |-> <<Difference("status", <<>>)>>,
                               score |-> 0])

\* a Pass outcome with a value has been compared with a Fail outcome whose
\* class list is not empty
C11_Witness ==
    /\ cmpResult.done /\ ~cmpResult.out.raised
    /\ cmpActual.status = "PASS" /\ cmpExpected.status = "FAIL"
    /\ DOMAIN cmpActual.values # {}
    /\ cmpExpected.error_classes # <<>>

\* the name-paths of an outcome that are checked: its keys case-folded,
\* without the meta keys
CheckedNames(values) ==
    {ToLower(k) : k \in DOMAIN values} \ {ignored_meta_names[i] : i \in DOMAIN ignored_meta_names}

\* how many keys of the outcome are the name-path n after case folding
Spelled(values, n) == Cardinality({k \in DOMAIN values : ToLower(k) = n})

\* how many differences of the result are Difference(kind, n)
Reported(kind, n) ==
    Cardinality({i \in DOMAIN cmpResult.out.val.differences :
                    cmpResult.out.val.differences[i] = Difference(kind, n)})

\* C12: two Pass outcomes whose case-folded non-meta key sets differ compare
\* as Fail with score 0; the differences hold one "unexpected" entry for
\* every key that only the actual outcome has and one "missing" entry for
\* every key that only the expected outcome has, none for a name-path both
\* have, and no entry of a value comparison.
C12_AllNameDifferencesReported ==
    (BothPass /\ CheckedNames(cmpActual.values) # CheckedNames(cmpExpected.values))
    => /\ FailZero
       /\ \A n \in CheckedNames(cmpActual.values) \ CheckedNames(cmpExpected.values) :
              /\ Reported("unexpected", n) = Spelled(cmpActual.values, n)
              /\ Reported("missing", n) = 0
       /\ \A n \in CheckedNames(cmpExpected.values) \ CheckedNames(cmpActual.values) :
              /\ Reported("missing", n) = Spelled(cmpExpected.values, n)
              /\ Reported("unexpected", n) = 0
       /\ \A n \in CheckedNames(cmpActual.values) \cap CheckedNames(cmpExpected.values) :
              Reported("unexpected", n) = 0 /\ Reported("missing", n) = 0
       /\ \A i \in DOMAIN cmpResult.out.val.differences :
              cmpResult.out.val.differences[i].kind # "value"

\* an outcome that alone has one name-path has been compared with an outcome
\* that alone has another one: the result holds the "unexpected" and the
\* "missing" entry
C12_Witness ==
    /\ BothPass /\ FailZero
    /\ Cardinality(CheckedNames(cmpActual.values) \ CheckedNames(cmpExpected.values)) = 1
    /\ Cardinality(CheckedNames(cmpExpected.values) \ CheckedNames(cmpActual.values)) = 1
    /\ Len(cmpResult.out.val.differences) = 2

\* an outcome without its meta keys, in any letter case
WithoutMeta(outcome) ==
    [outcome EXCEPT !.values =
        [k \in {k \in DOMAIN outcome.values : ~InList(ToLower(k), ignored_meta_names)}
            |-> outcome.values[k]]]

\* C13: the meta keys @version and @features are not checked: the result of
\* comparing two Pass outcomes is the result of comparing them without their
\* meta keys, so a meta key on one side only, or with another value, adds no
\* difference and changes neither verdict nor score.
C13_MetaKeysNotChecked ==
    BothPass =>
        cmpResult.out = compare_with_expected(WithoutMeta(cmpActual), WithoutMeta(cmpExpected))

-----------------------------------------------------------------------------
(* The claims about the outcome of a run (Spec) *)

\* the verdict the worker of test case i returned is v
Verdict(i, v) == workerOut[i].state = "returned" /\ workerOut[i].result.status = v

\* run_tests has tallied the results
Aggregated == pc \in {"output_results", "exit"} \/ (pc = "exited" /\ report.written)

\* the sum of the scores of the results of the test cases in S
RECURSIVE SumOfScores(_)
SumOfScores(S) ==
    IF S = {} THEN 0
    ELSE LET i == CHOOSE i \in S : TRUE
         IN  workerOut[i].result.score + SumOfScores(S \ {i})

\* C14: when the process has ended, the run's status is Fail and the exit
\* code is 1 exactly if some test case's verdict is Fail, the exit code is 0
\* exactly if every test case's verdict is Pass or PassWithAcceptedDeviation,
\* and it is 2 exactly if the run ended before any test was started (setup
\* or corpus error).
C14_ExitCodeFollowsVerdicts ==
    pc = "exited" =>
        /\ ws.result = "fail" <=> \E i \in DOMAIN workerOut : Verdict(i, "fail")
        /\ exitCode = 1 <=> \E i \in DOMAIN workerOut : Verdict(i, "fail")
        /\ exitCode = 0 <=>
               /\ workerOut # <<>>
               /\ \A i \in DOMAIN workerOut :
                      Verdict(i, "pass") \/ Verdict(i, "pass_with_accepted_deviation")
        /\ exitCode = 2 <=> workerOut = <<>>

\* C15: once the results are tallied, the three counts add up to the number
\* of scanned test cases, each count is the number of test cases with that
\* verdict, the score is the sum of the test cases' scores, and each result
\* is the one its test case's file and adapter behaviour give, in whatever
\* order the workers ended.
C15_TalliesMatchResults ==
    Aggregated =>
        /\ ws.passed_test_count + ws.passed_with_deviation_test_count + ws.failed_test_count
               = Len(test_cases)
        /\ ws.failed_test_count = Cardinality({i \in DOMAIN workerOut : Verdict(i, "fail")})
        /\ ws.passed_with_deviation_test_count =
               Cardinality({i \in DOMAIN workerOut : Verdict(i, "pass_with_accepted_deviation")})
        /\ ws.passed_test_count = Cardinality({i \in DOMAIN workerOut : Verdict(i, "pass")})
        /\ ws.score = SumOfScores(DOMAIN workerOut)
        /\ \A k \in DOMAIN test_cases :
               /\ test_cases[k].result = workerOut[test_cases[k].identifier].result
               /\ workerOut[test_cases[k].identifier] =
                      Processed[FileOf(test_cases[k], corpus), adapter[test_cases[k].identifier]]

\* the results of two test cases with different verdicts, one of them
\* PassWithAcceptedDeviation, have been tallied
C15_Witness ==
    /\ Aggregated /\ Len(test_cases) = 2
    /\ ws.passed_with_deviation_test_count = 1
    /\ ws.failed_test_count = 1
    /\ ws.score > 0

\* the run has not got past scan_test_cases: no adapter was started, no
\* report is written, and if the process has ended, its exit code is 2
AbortedBeforeDispatch ==
    /\ pc \in {"parse_arguments", "scan_test_cases", "exited"}
    /\ called = <<>> /\ workerOut = <<>>
    /\ ~report.written
    /\ pc = "exited" => exitCode = 2

\* the file belongs to a category of the selected tier
InTier(file) == InList(file.dir, TIERS[tier])

\* C16, as stated: with an input file in the corpus that has no outcome file,
\* the run ends with exit code 2 and no adapter is ever started.
C16_MissingOutcomeFileAborts ==
    (\E n \in DOMAIN corpus : ~corpus[n].has_out) => AbortedBeforeDispatch

\* C16, amended: with an input file in a category of the selected tier that
\* has no outcome file, the run ends with exit code 2 and no adapter is ever
\* started.
C16_MissingOutcomeFileInTierAborts ==
    (\E n \in DOMAIN corpus : ~corpus[n].has_out /\ InTier(corpus[n])) => AbortedBeforeDispatch

\* a run has ended with exit code 2 in scan_test_cases at a file without
\* outcome file that came after a file with one
C16_Witness ==
    /\ pc = "exited" /\ exitCode = 2 /\ called = <<>>
    /\ Len(test_cases) = 2
    /\ \E n \in DOMAIN corpus : ~corpus[n].has_out /\ InTier(corpus[n])

\* C17: when no input file of the corpus is in a category of the selected
\* tier, the run ends with exit code 2 before dispatch: no adapter is started
\* and no report is written.
C17_EmptySelectionAborts ==
    (\A n \in DOMAIN corpus : ~InTier(corpus[n])) => AbortedBeforeDispatch

\* a run over a corpus whose only file has an outcome file and is in a
\* category outside the tier has ended with exit code 2
C17_Witness ==
    /\ pc = "exited" /\ exitCode = 2 /\ ws.format = "json"
    /\ Len(corpus) = 1 /\ corpus[1].has_out /\ ~InTier(corpus[1])

\* parse_fail on the stdout of each behaviour of the adapter, computed once
FailDecoded == [behaviour \in AdapterBehaviours |-> parse_fail(behaviour.stdout)]

\* the adapter of test case i ended with exit status 1 and its stdout decodes
\* to a Fail outcome with no error class or with several
WrongClassCount(i) ==
    /\ adapter[i].kind = "exit" /\ adapter[i].returncode = 1
    /\ ~FailDecoded[adapter[i]].raised
    /\ Len(FailDecoded[adapter[i]].val.error_classes) # 1

\* no worker has left _process_test_case with an exception
NoWorkerRaised == \A j \in DOMAIN workerOut : workerOut[j].state # "raised"

\* C18: when the adapter exits with status 1 and its stdout decodes to a Fail
\* outcome with zero or several error classes, AdapterRunner.run raises Error
\* (so no outcome reaches the comparator) and the worker returns the Fail
\* ComparisonResult of score 0 with one difference that the handler builds;
\* the run goes on to its report unless the worker of another case raised.
C18_WrongClassCountIsFailedCase ==
    \A i \in DOMAIN workerOut :
        (WorkerDone(i) /\ WrongClassCount(i)) =>
            /\ Ran[adapter[i]] = Raise("Error")
            /\ workerOut[i] = Returned(ErrorResult)
            /\ FailedCase(i)
            /\ (pc = "exited" /\ NoWorkerRaised) =>
                   report.written /\ report.total_test_count = Len(test_cases)

\* the workers of two test cases are done, one after "FAIL =" and one after
\* "FAIL = Syntax|IO", both with exit status 1
C18_Witness ==
    \E i, j \in DOMAIN workerOut :
        /\ WorkerDone(i) /\ adapter[i] = Exited(1, <<Line.fail_none>>)
        /\ WorkerDone(j) /\ adapter[j] = Exited(1, <<Line.fail_two>>)
        /\ WrongClassCount(i) /\ WrongClassCount(j)

\* the adapter of test case i ended with an exit status other than 0 and 1
OtherExitStatus(i) == adapter[i].kind = "exit" /\ adapter[i].returncode \notin {0, 1}

\* C19: when the adapter exits with a status other than 0 and 1,
\* AdapterRunner.run raises Error in place of an outcome, the worker returns
\* the Fail ComparisonResult of score 0 with one difference, and the worker of
\* every other test case has the result of its own file and adapter run.
C19_OtherExitStatusIsFailedCase ==
    \A i \in DOMAIN workerOut :
        (WorkerDone(i) /\ OtherExitStatus(i)) =>
            /\ Ran[adapter[i]] = Raise("Error")
            /\ workerOut[i] = Returned(ErrorResult)
            /\ FailedCase(i)
            /\ \A j \in DOMAIN workerOut \ {i} :
                   WorkerDone(j) =>
                       workerOut[j] =
                           Processed[FileOf(CHOOSE t \in Range(test_cases) : t.identifier = j,
                                            corpus), adapter[j]]

\* the adapter of one test case wrote "a = Integer(1)" and ended with exit
\* status 3, and the worker of another test case returned a Pass result
C19_Witness ==
    \E i, j \in DOMAIN workerOut :
        /\ WorkerDone(i) /\ adapter[i] = Exited(3, <<Line.a_Int1>>)
        /\ WorkerDone(j) /\ Verdict(j, "pass")

\* AdapterRunner.run ended as the exit status alone tells: with an outcome of
\* the given status, or with an Error
YieldsOutcomeOrError(ran, status) ==
    IF ran.raised THEN ran.exc = "Error" ELSE ran.val.status = status

\* C20: the exit status alone determines the variant of the outcome of an
\* adapter run: after exit status 0 AdapterRunner.run returns a Pass outcome
\* or raises Error, after exit status 1 it returns a Fail outcome or raises
\* Error, whatever lines stdout holds.
C20_VariantFollowsExitStatus ==
    \A i \in DOMAIN workerOut :
        (WorkerDone(i) /\ adapter[i].kind = "exit") =>
            /\ adapter[i].returncode = 0 => YieldsOutcomeOrError(Ran[adapter[i]], "PASS")
            /\ adapter[i].returncode = 1 => YieldsOutcomeOrError(Ran[adapter[i]], "FAIL")

-----------------------------------------------------------------------------
(* More claims about one decoding (SpecDecode) *)

\* the line is neither blank nor a comment and has the form of a FAIL line
IsFailLine(line) == ~IsSkipped(Strip(line)) /\ MatchFailLine(Strip(line)).ok

\* parse_fail has decoded the document
FailDecoderRan == decoded.decoder = "parse_fail"

\* the decoding ended with a decode error
DecodeError == decoded.out.raised /\ decoded.out.exc = "Error"

\* C21: decoding a Fail document with more than one FAIL line is a decode
\* error, whatever its first FAIL line holds.
C21_SecondFailLineIsDecodeError ==
    (/\ FailDecoderRan
     /\ \E m, n \in DOMAIN docText :
            m # n /\ IsFailLine(docText[m]) /\ IsFailLine(docText[n]))
    => DecodeError

\* the sequence holds no element twice
DuplicateFree(s) == \A m, n \in DOMAIN s : m # n => s[m] # s[n]

\* C22: every Fail outcome parse_fail returns carries a non-empty list of
\* error classes without duplicates.
C22_FailOutcomeHasClasses ==
    (FailDecoderRan /\ ~decoded.out.raised) =>
        /\ decoded.out.val.status = "FAIL"
        /\ decoded.out.val.error_classes # <<>>
        /\ DuplicateFree(decoded.out.val.error_classes)

-----------------------------------------------------------------------------
(* The claims about the comparison of two Float values (SpecFloat) *)

\* the floats that float() makes of the actual and of the expected text
ActualFloat == ParseFloat(cmpActual.values[<<"a">>].value).val
ExpectedFloat == ParseFloat(cmpExpected.values[<<"a">>].value).val

\* the comparison found the two Float values to match, to differ
FloatsMatch == cmpResult.done /\ ExactPass
FloatsDiffer ==
    /\ cmpResult.done /\ ~cmpResult.out.raised
    /\ cmpResult.out.val.status = "fail"
    /\ cmpResult.out.val.differences = <<Difference("value", <<"a">>)>>

\* C23: an actual NaN and an expected NaN match; NaN on one side only never
\* matches, whichever side holds it and whether the other side is finite or
\* an infinity of either sign.
C23_NaNMatchesOnlyNaN ==
    (cmpResult.done /\ (ActualFloat.kind = "nan" \/ ExpectedFloat.kind = "nan")) =>
        IF ActualFloat.kind = "nan" /\ ExpectedFloat.kind = "nan"
        THEN FloatsMatch ELSE FloatsDiffer

\* an actual "NaN" has been compared with an expected "-inf"
C23_Witness ==
    /\ cmpResult.done
    /\ cmpActual = FloatOutcome(FloatText.NaN)
    /\ cmpExpected = FloatOutcome(FloatText.neg_inf)
    /\ ActualFloat.kind = "nan" /\ ExpectedFloat.kind = "inf" /\ ExpectedFloat.sign = -1

\* C24: two infinities match iff they have the same sign; a finite value
\* and an infinity match iff the finite value is beyond 1e307 in absolute
\* value and has the sign of the infinity, whichever side holds the infinity.
C24_InfinityMatchesSameSign ==
    LET a == ActualFloat
        b == ExpectedFloat
        \* at 10^307 <= |v| < 10^308, |v| is 10^307 iff its digits are 1 and zeros
        beyond(v) == /\ v.kind = "fin" /\ v.mant > 0
                     /\ \/ MagExp(v) > 307
                        \/ MagExp(v) = 307 /\ v.mant # Pow10(NumDigits(v.mant) - 1)
        matching == IF a.kind = "inf" /\ b.kind = "inf" THEN a.sign = b.sign
                    ELSE IF a.kind = "inf" THEN beyond(b) /\ b.sign = a.sign
                    ELSE beyond(a) /\ a.sign = b.sign
    IN  (/\ cmpResult.done
         /\ a.kind # "nan" /\ b.kind # "nan"
         /\ (a.kind = "inf" \/ b.kind = "inf"))
        => IF matching THEN FloatsMatch ELSE FloatsDiffer

\* an actual "-2e307" has been compared with an expected "-inf" and matched
C24_Witness ==
    /\ FloatsMatch
    /\ cmpActual = FloatOutcome(FloatText.neg_two_e307)
    /\ cmpExpected = FloatOutcome(FloatText.neg_inf)

\* d * 10^e <= 10^-10, for a natural number d
DecimalWithinAbsTol(d, e) ==
    \/ d = 0
    \/ /\ e <= DEFAULT_ABS_TOL_EXP
       /\ \/ DEFAULT_ABS_TOL_EXP - e > MaxMantDigits
          \/ d <= Pow10(DEFAULT_ABS_TOL_EXP - e)

\* |a - b| <= max(10^-9 * max(|a|, |b|), 10^-10) for the finite decimal
\* numbers a and b, in exact arithmetic.  Both are scaled to the smaller
\* exponent when that fits the integers; when it does not, the larger one
\* dwarfs the other and the decision is that of the larger one against 10^-10.
WithinDecimalBound(a, b) ==
    IF a.mant = 0 /\ b.mant = 0 THEN TRUE
    ELSE
    LET e  == IF a.mant = 0 THEN b.exp ELSE IF b.mant = 0 THEN a.exp ELSE Min(a.exp, b.exp)
        ga == IF a.mant = 0 THEN 0 ELSE a.exp - e
        gb == IF b.mant = 0 THEN 0 ELSE b.exp - e
        fits(m, g) == g <= MaxMantDigits /\ m <= Pow10(MaxMantDigits) \div Pow10(g)
    IN  IF fits(a.mant, ga) /\ fits(b.mant, gb)
        THEN LET A == a.sign * a.mant * Pow10(ga)
                 B == b.sign * b.mant * Pow10(gb)
                 diff == Abs(A - B)
                 max_ab == Max(Abs(A), Abs(B))
             IN  \/ diff <= max_ab \div Pow10(-DEFAULT_REL_TOL_EXP)
                 \/ DecimalWithinAbsTol(diff, e)
        ELSE LET big == IF MagExp(a) >= MagExp(b) THEN a ELSE b
             IN  IF MagExp(big) > DEFAULT_ABS_TOL_EXP THEN FALSE
                 ELSE IF MagExp(big) < DEFAULT_ABS_TOL_EXP - 1 THEN TRUE
                 ELSE IF MagExp(big) = DEFAULT_ABS_TOL_EXP
                 THEN a.sign = b.sign /\ big.mant = Pow10(NumDigits(big.mant) - 1)
                 ELSE TRUE

\* C25: two finite Float values within max(1e-9 * max(|a|, |b|), 1e-10) of
\* each other match and two finite Float values further apart differ, the
\* values being the numbers that the two texts denote.
C25_FiniteWithinToleranceMatches ==
    (cmpResult.done /\ ActualFloat.kind = "fin" /\ ExpectedFloat.kind = "fin") =>
        IF WithinDecimalBound(ActualFloat, ExpectedFloat) THEN FloatsMatch ELSE FloatsDiffer

-----------------------------------------------------------------------------
(* More claims about the conformance run (Spec, FairSpec) *)

\* the test case at place k of test_cases has its verdict; all of them have
VerdictSet(k) == test_cases[k].result # NoResult
AllVerdictsSet == test_cases # <<>> /\ \A k \in DOMAIN test_cases : VerdictSet(k)

\* the adapter is never started twice for a test case, and it has been
\* started once for each when run_tests is over
AdapterStartedOnce ==
    /\ \A i \in DOMAIN called : called[i] <= 1
    /\ (ReachedExecution /\ pc # "run_tests") => \A i \in DOMAIN called : called[i] = 1

\* a verdict that is set stays as it is
VerdictKept ==
    \A k \in DOMAIN test_cases :
        VerdictSet(k) => (k \in DOMAIN test_cases' /\ test_cases'[k] = test_cases[k])

\* C26: in a run that reaches execution the adapter is started exactly once
\* for every test case, and every test case's verdict is set, once, and never
\* changed afterwards.
C26_AdapterOnceVerdictOnce ==
    /\ []AdapterStartedOnce
    /\ [][VerdictKept]_vars
    /\ (pc = "run_tests") ~> AllVerdictsSet

\* the identifiers of the test cases of a list increase along the list
IncreasingIdentifiers(s) ==
    \A m, n \in DOMAIN s : m < n => s[m].identifier < s[n].identifier

\* the test cases a report lists under one status
ListedWith(status) ==
    LET HasStatus(t) == t.result.status = status
    IN  SelectSeq(report.differences, HasStatus)

\* C27: the identifiers increase along the path-sorted list of test cases,
\* and along the test cases the report lists (under each status in the text
\* report, in "differences" in the JSON report), whatever the order in which
\* rglob yielded the files.
C27_IdentifiersFollowPathOrder ==
    /\ ReachedExecution => IncreasingIdentifiers(test_cases)
    /\ report.written =>
        IF report.format = "text"
        THEN \A status \in {"fail", "pass_with_accepted_deviation"} :
                IncreasingIdentifiers(ListedWith(status))
        ELSE IncreasingIdentifiers(report.differences)

\* the test case with identifier i, its file, and the outcome its adapter gave
CaseOf(i) == CHOOSE t \in Range(test_cases) : t.identifier = i
OutFileOf(i) == FileOf(CaseOf(i), corpus)
AdapterReturned(i) == workerOut[i].state # "pending" /\ ~Ran[adapter[i]].raised

\* what the worker gives back when the adapter returned an outcome and the
\* expected outcome file is decoded as a Pass document, as a Fail document,
\* computed once for the files and the adapters of the model
WorkerDecoding ==
    [file \in CorpusFiles, behaviour \in AdapterBehaviours |->
        IF Ran[behaviour].raised THEN [pass |-> Pending, fail |-> Pending]
        ELSE [pass |-> ProcessExpected(Ran[behaviour].val, parse_pass(file.out_text)),
              fail |-> ProcessExpected(Ran[behaviour].val, parse_fail(file.out_text))]]
WorkerWith(i, decoder) == WorkerDecoding[OutFileOf(i), adapter[i]][decoder]

\* C28: when the worker of a test case comes to decode the expected outcome
\* file, a file name containing "PASS" makes it decode a Pass document, a file
\* name containing "FAIL" a Fail document, and a file name containing neither
\* makes the test case a failed one while the run goes on.
C28_DecoderFollowsFileName ==
    \A i \in DOMAIN workerOut : AdapterReturned(i) =>
        LET name == OutName(OutFileOf(i).stem)
        IN  /\ Contains(<<"P","A","S","S">>, name) =>
                    workerOut[i] = WorkerWith(i, "pass")
            /\ Contains(<<"F","A","I","L">>, name) =>
                    workerOut[i] = WorkerWith(i, "fail")
            /\ (~Contains(<<"P","A","S","S">>, name) /\ ~Contains(<<"F","A","I","L">>, name)) =>
                    workerOut[i] = Returned(ErrorResult)

\* C28, amended: a file name containing "PASS" makes the worker decode a Pass
\* document, also when the name contains "FAIL" as well; a file name
\* containing "FAIL" and not "PASS" a Fail document; a file name containing
\* neither makes the test case a failed one while the run goes on.
C28_DecoderFollowsFileNamePassFirst ==
    \A i \in DOMAIN workerOut : AdapterReturned(i) =>
        LET name == OutName(OutFileOf(i).stem)
            pass == Contains(<<"P","A","S","S">>, name)
            fail == Contains(<<"F","A","I","L">>, name)
        IN  /\ pass => workerOut[i] = WorkerWith(i, "pass")
            /\ (fail /\ ~pass) => workerOut[i] = WorkerWith(i, "fail")
            /\ (~pass /\ ~fail) => workerOut[i] = Returned(ErrorResult)

\* the worker of FAIL-PASS-d.out, which holds "FAIL = Character", has decoded
\* it as a Pass document: the test case failed although the adapter reported
\* the class Character
C28_Witness ==
    \E i \in DOMAIN workerOut :
        /\ AdapterReturned(i)
        /\ OutFileOf(i).stem = <<"F","A","I","L","-","P","A","S","S","-","d">>
        /\ Ran[adapter[i]].val = FailOutcome(<<Character>>)
        /\ workerOut[i] = Returned(ErrorResult)
        /\ workerOut[i] # WorkerWith(i, "fail")

-----------------------------------------------------------------------------
(* More claims about one comparison (SpecCompare) *)

\* C29: compare_with_expected returns a ComparisonResult and never raises;
\* against an expected Fail outcome without any class, every actual Fail
\* outcome of one class, Syntax included, gets the verdict Fail and score 0.
C29_CompareNeverRaises ==
    cmpResult.done =>
        /\ ~cmpResult.out.raised
        /\ (BothFail /\ cmpExpected.error_classes = <<>>) =>
                /\ cmpResult.out.val.status = "fail"
                /\ cmpResult.out.val.score = 0

-----------------------------------------------------------------------------
(* The round trip of an outcome through write and its decoder (SpecDecode) *)

\* the decoder that made the outcome, applied to what write writes of it
DecodedAgain ==
    IF decoded.decoder = "parse_pass" THEN parse_pass(write(decoded.out.val))
    ELSE parse_fail(write(decoded.out.val))

\* C30: an outcome a decoder returned, written by write and decoded again by
\* the same decoder, is an outcome of the same variant with the same values
\* (name path, type and raw value) and the same list of error classes.
C30_WriteThenDecodeIsSame ==
    (decoded.decoder # "none" /\ ~decoded.out.raised) =>
        /\ ~DecodedAgain.raised
        /\ DecodedAgain.val.status = decoded.out.val.status
        /\ DecodedAgain.val.values = decoded.out.val.values
        /\ DecodedAgain.val.error_classes = decoded.out.val.error_classes

\* "b = Float(1.5)" then "a=Integer(2)" has been decoded; write puts the
\* line of a first and spells it "a = Integer(2)"
C30_Witness ==
    /\ decoded.decoder = "parse_pass" /\ ~decoded.out.raised
    /\ docText = <<Line.b_Float, Line.a_Int2_tight>>
    /\ write(decoded.out.val) = <<Line.a_Int2, Line.b_Float>>
    /\ DOMAIN DecodedAgain.val.values = {<<"a">>, <<"b">>}

=============================================================================
